---------------------------- MODULE Spec2Model ----------------------------
(***************************************************************************)
(* Routing and tour-planning engine of the travel platform backend:        *)
(*   app/algorithms/shortest_path.py  Edge, shortest_path                   *)
(*   app/algorithms/tsp.py            compute_tour                          *)
(*   app/services/routing.py          RoutingService.compute_route,          *)
(*                                    compute_reachable_nodes               *)
(*   app/services/facility.py         FacilityService.find_nearby_facilities*)
(*                                                                         *)
(* Python floats are carried as exact fixed-point integers: a distance in  *)
(* metres, ideal_speed and congestion in tenths, a travel time in units of *)
(* 1/TimeScale.  Every quotient taken below is exact for the values the    *)
(* model draws, so sums and comparisons are those of the real numbers.     *)
(***************************************************************************)
EXTENDS Integers, Sequences, FiniteSets, TLC

VARIABLES
    edges,      \* the caller's list of constructed Edge objects
    ctor,       \* the last Edge(...) construction: its arguments and outcome
    sp,         \* the last shortest_path(...) call: its arguments and outcome
    tour,       \* the last compute_tour(...) call: its arguments and outcome
    db,         \* the rows behind the region, graph and facility repositories
    _edges_cache,   \* RoutingService._edges_cache
    _nodes_cache,   \* RoutingService._nodes_cache
    reach,      \* the last compute_reachable_nodes(...) call and its outcome
    nearby,     \* the last find_nearby_facilities(...) call and its outcome
    routing,    \* the last compute_route(...) call and its outcome
    fetched,    \* region id -> how often its edge list was queried
    calls,      \* how many service calls were made
    tasks,      \* the service calls running as coroutines on the event loop
    stores      \* cache key -> how often `self._..._cache[key] = ...` ran

algorithms == <<edges, ctor, sp, tour>>
services ==
    <<db, _edges_cache, _nodes_cache, reach, nearby, routing, fetched, calls,
      tasks, stores>>
vars == <<edges, ctor, sp, tour, db, _edges_cache, _nodes_cache, reach,
          nearby, routing, fetched, calls, tasks, stores>>

(***************************************************************************)
(* Bounds of the model.                                                    *)
(***************************************************************************)
MaxEdges == 3
MaxTasks == 2
MaxForged == 2
MaxCtorEdges == 1
MaxTargets == 3
MaxCalls == 2

(***************************************************************************)
(* Units of the fixed-point representation.                                *)
(***************************************************************************)
Tenth == 10
TimeScale == 14

(***************************************************************************)
(* Optional arguments.  An Optional[X] is a record: None, or Some(x).      *)
(* allowed_modes is Optional[Sequence[str] | str]: None, one tag given as  *)
(* a str, or a sequence of tags.                                           *)
(***************************************************************************)
NoModes == [kind |-> "None", tags |-> <<>>]
ModeStr(tag) == [kind |-> "str", tags |-> <<tag>>]
ModeSeq(tags) == [kind |-> "seq", tags |-> tags]

NoTuple == [is_none |-> TRUE, value |-> <<>>]
SomeTuple(t) == [is_none |-> FALSE, value |-> t]

NoStr == [is_none |-> TRUE, value |-> ""]
SomeStr(x) == [is_none |-> FALSE, value |-> x]

NoNumber == [is_none |-> TRUE, value |-> 0]
SomeNumber(n) == [is_none |-> FALSE, value |-> n]

\* dict[key] = value
Put(dict, key, value) ==
    [k \in DOMAIN dict \cup {key} |-> IF k = key THEN value ELSE dict[k]]

\* The node identifiers of the path searches.
Nodes == {"1", "2", "3"}

(***************************************************************************)
(* str.lower() on the mode tags the model draws.                           *)
(***************************************************************************)
lower(s) ==
    CASE s = "Walk" -> "walk"
      [] s = "WALK" -> "walk"
      [] s = "BIKE" -> "bike"
      [] s = "Bike" -> "bike"
      [] OTHER -> s

\* sorted(...) on lower-cased mode tags: Python orders strings by code point.
ModeOrder == <<"bike", "electric_cart", "walk">>
SortedModes(set) == SelectSeq(ModeOrder, LAMBDA m : m \in set)

Range(s) == {s[i] : i \in DOMAIN s}

RECURSIVE SumSeq(_)
SumSeq(s) == IF s = <<>> THEN 0 ELSE s[1] + SumSeq(Tail(s))

(***************************************************************************)
(* class WeightStrategy(str, Enum): WeightStrategy(x) accepts a member or  *)
(* its value and raises ValueError for anything else.                      *)
(***************************************************************************)
DISTANCE == "distance"
TIME == "time"
WeightStrategy == {DISTANCE, TIME}

(***************************************************************************)
(* Edge.__post_init__: the tags are lower-cased and the empty ones dropped *)
(* first, then the four checks run in the order of the source.             *)
(***************************************************************************)
\* Mutant: the empty tags are kept.
EdgeModes_KeepsEmpty(transport_modes) ==
    [i \in DOMAIN transport_modes |-> lower(transport_modes[i])]

EdgeModes(transport_modes) ==
    LET kept == SelectSeq(transport_modes, LAMBDA m : m # "")
    IN  [i \in DOMAIN kept |-> lower(kept[i])]

Edge(source, target, distance, ideal_speed, congestion, transport_modes) ==
    LET modes == EdgeModes(transport_modes)
    IN  IF modes = <<>>
          THEN [ok |-> FALSE, error |-> "ValueError",
                message |-> "transport_modes must contain at least one mode"]
        ELSE IF distance < 0
          THEN [ok |-> FALSE, error |-> "ValueError",
                message |-> "distance must be non-negative"]
        ELSE IF ideal_speed <= 0
          THEN [ok |-> FALSE, error |-> "ValueError",
                message |-> "ideal_speed must be positive"]
        ELSE IF congestion <= 0
          THEN [ok |-> FALSE, error |-> "ValueError",
                message |-> "congestion must be positive"]
        ELSE [ok |-> TRUE,
              edge |-> [source |-> source, target |-> target,
                        distance |-> distance, ideal_speed |-> ideal_speed,
                        congestion |-> congestion, transport_modes |-> modes]]

\* Mutant: the congestion factor is left out.
TravelTime_IgnoresCongestion(edge) ==
    (TimeScale * Tenth * edge.distance) \div edge.ideal_speed

\* Edge.travel_time = distance / (ideal_speed * congestion), in 1/TimeScale.
travel_time(edge) ==
    (TimeScale * Tenth * Tenth * edge.distance) \div (edge.ideal_speed * edge.congestion)

(***************************************************************************)
(* _normalise_modes and _select_mode.                                      *)
(***************************************************************************)
_normalise_modes(modes) ==
    IF modes.kind = "None" THEN NoTuple
    ELSE LET iterable == modes.tags
             normalised == SortedModes({lower(iterable[i]) : i \in
                                         {j \in DOMAIN iterable : iterable[j] # ""}})
         IN  IF normalised = <<>> THEN NoTuple ELSE SomeTuple(normalised)

\* Mutant: the filter is ignored.
SelectMode_IgnoresFilter(edge, allowed) == SomeStr(edge.transport_modes[1])

\* Mutant: the first declared mode of an edge that has an allowed mode.
SelectMode_FirstDeclared(edge, allowed) ==
    IF allowed.is_none
         \/ Range(edge.transport_modes) \cap Range(allowed.value) # {}
      THEN SomeStr(edge.transport_modes[1])
      ELSE NoStr

\* The first declared mode of the edge that is allowed, or None.
_select_mode(edge, allowed) ==
    IF allowed.is_none THEN SomeStr(edge.transport_modes[1])
    ELSE LET allowed_set == Range(allowed.value)
             hits == {i \in DOMAIN edge.transport_modes :
                         edge.transport_modes[i] \in allowed_set}
         IN  IF hits = {} THEN NoStr
             ELSE SomeStr(edge.transport_modes[CHOOSE i \in hits : \A j \in hits : i <= j])

(***************************************************************************)
(* shortest_path.  The search state is the record                          *)
(*   queue          the heap, a set of (cost, order, node) entries          *)
(*   order          the next value of the insertion counter                 *)
(*   best_cost, best_distance, best_time, previous   the dicts              *)
(*   visited        the set of expanded nodes                               *)
(*   pops           how many entries were popped                            *)
(*   pop_log        the entries heappop returned, in the order of the pops  *)
(*   settled        for every visited.add(node), in order: the node and     *)
(*                  what the four dicts held for it at that moment          *)
(*   raised         the ValueError raised inside the loop, "" if none       *)
(*   stopped        the loop has ended (queue empty, break or raise)        *)
(***************************************************************************)
\* Mutant: of the entries of least cost the one pushed last comes first.
HeapMin_LatestFirst(queue) ==
    CHOOSE q \in queue :
        \A r \in queue : q.cost < r.cost \/ (q.cost = r.cost /\ q.order >= r.order)

\* heappop: the least (cost, order, node) tuple; order is unique.
HeapMin(queue) ==
    CHOOSE q \in queue :
        \A r \in queue : q.cost < r.cost \/ (q.cost = r.cost /\ q.order <= r.order)

\* adjacency[node]: the edges leaving node, in input order.
Adjacency(edge_list, node) == SelectSeq(edge_list, LAMBDA e : e.source = node)

SearchStart(start) ==
    [queue |-> {[cost |-> 0, order |-> 0, node |-> start]},
     order |-> 1,
     best_cost |-> [n \in {start} |-> 0],
     best_distance |-> [n \in {start} |-> 0],
     best_time |-> [n \in {start} |-> 0],
     previous |-> <<>>,
     visited |-> {},
     pops |-> 0,
     pop_log |-> <<>>,
     settled |-> <<>>,
     raised |-> "",
     stopped |-> FALSE]

\* What best_cost, best_distance, best_time and previous hold for node;
\* previous has no entry for the start.
Labels(st, node) ==
    [node |-> node,
     cost |-> st.best_cost[node],
     distance |-> st.best_distance[node],
     time |-> st.best_time[node],
     previous |-> IF node \in DOMAIN st.previous THEN <<st.previous[node]>>
                  ELSE <<>>]

\* new_distance = best_distance[node] + segment_distance
NewDistance(st, node, segment_distance) == st.best_distance[node] + segment_distance

\* Mutant: the running time is not carried along.
NewTime_Forgets(st, node, segment_time) == segment_time

\* new_time = best_time[node] + segment_time
NewTime(st, node, segment_time) == st.best_time[node] + segment_time

\* new_cost = new_distance if strategy is WeightStrategy.DISTANCE else new_time
NewCost(strategy, new_distance, new_time) ==
    IF strategy = DISTANCE THEN new_distance ELSE new_time

\* Mutant: the first label a node gets is kept.
Improves_FirstWins(st, target, new_cost) == target \notin DOMAIN st.best_cost

\* new_cost < best_cost.get(edge.target, inf)
Improves(st, target, new_cost) ==
    target \notin DOMAIN st.best_cost \/ new_cost < st.best_cost[target]

\* One pass of the body of `for edge in adjacency.get(node, [])`.
Relax(st, node, edge, allowed, strategy) ==
    LET mode == _select_mode(edge, allowed)
        segment_distance == edge.distance
        segment_time == travel_time(edge)
        new_distance == NewDistance(st, node, segment_distance)
        new_time == NewTime(st, node, segment_time)
        new_cost == NewCost(strategy, new_distance, new_time)
    IN  IF mode.is_none THEN st
        ELSE IF segment_distance < 0 \/ segment_time < 0
          THEN [st EXCEPT !.raised = "negative edge weight detected",
                          !.stopped = TRUE]
        ELSE IF Improves(st, edge.target, new_cost)
          THEN [st EXCEPT
                  !.best_cost = Put(@, edge.target, new_cost),
                  !.best_distance = Put(@, edge.target, new_distance),
                  !.best_time = Put(@, edge.target, new_time),
                  !.previous = Put(@, edge.target,
                                   [node |-> node, edge |-> edge, mode |-> mode.value]),
                  !.queue = @ \cup {[cost |-> new_cost, order |-> st.order,
                                     node |-> edge.target]},
                  !.order = @ + 1]
        ELSE st

RECURSIVE RelaxAll(_, _, _, _, _)
RelaxAll(st, node, out_edges, allowed, strategy) ==
    IF out_edges = <<>> \/ st.stopped THEN st
    ELSE RelaxAll(Relax(st, node, Head(out_edges), allowed, strategy),
                  node, Tail(out_edges), allowed, strategy)

\* Mutant: no popped entry is taken for stale.
AlreadyVisited_Never(st, node) == FALSE

\* `if node in visited: continue`
AlreadyVisited(st, node) == node \in st.visited

\* One iteration of `while queue`.
SearchStep(st, edge_list, goal, allowed, strategy) ==
    IF st.queue = {} THEN [st EXCEPT !.stopped = TRUE]
    ELSE LET item == HeapMin(st.queue)
             popped == [st EXCEPT !.queue = @ \ {item}, !.pops = @ + 1,
                                  !.pop_log = Append(@, item)]
         IN  IF AlreadyVisited(st, item.node) THEN popped
             ELSE LET seen == [popped EXCEPT
                                  !.visited = @ \cup {item.node},
                                  !.settled = Append(@, Labels(st, item.node))]
                  IN  IF item.node = goal THEN [seen EXCEPT !.stopped = TRUE]
                      ELSE RelaxAll(seen, item.node,
                                    Adjacency(edge_list, item.node), allowed, strategy)

RECURSIVE Search(_, _, _, _, _)
Search(st, edge_list, goal, allowed, strategy) ==
    IF st.stopped THEN st
    ELSE Search(SearchStep(st, edge_list, goal, allowed, strategy),
                edge_list, goal, allowed, strategy)

NoPath == "No path found"

\* The reconstruction loop `while cursor != start`, nodes and segments still
\* in goal-to-start order.
RECURSIVE Reconstruct(_, _, _, _, _)
Reconstruct(st, start, cursor, nodes, segments) ==
    IF cursor = start
      THEN [ok |-> TRUE, nodes |-> Append(nodes, start), segments |-> segments]
    ELSE IF cursor \notin DOMAIN st.previous
      THEN [ok |-> FALSE, nodes |-> nodes, segments |-> segments]
    ELSE LET p == st.previous[cursor]
         IN  Reconstruct(st, start, p.node, Append(nodes, cursor),
                         Append(segments,
                                [source |-> p.node, target |-> cursor,
                                 transport_mode |-> p.mode,
                                 distance |-> p.edge.distance,
                                 time |-> travel_time(p.edge)]))

\* Mutant: the list is left in the order it was built in.
Reverse_Kept(s) == s

\* list.reverse()
Reverse(s) == [i \in DOMAIN s |-> s[Len(s) + 1 - i]]

PathResult(nodes, segments, total_distance, total_time) ==
    [ok |-> TRUE, error |-> "", message |-> "",
     nodes |-> nodes, segments |-> segments,
     total_distance |-> total_distance, total_time |-> total_time]

Raise(error, message) ==
    [ok |-> FALSE, error |-> error, message |-> message,
     nodes |-> <<>>, segments |-> <<>>,
     total_distance |-> 0, total_time |-> 0]

\* No search was run: nothing was pushed and nothing popped.
NoSearch ==
    [queue |-> {}, order |-> 0, best_cost |-> <<>>, best_distance |-> <<>>,
     best_time |-> <<>>, previous |-> <<>>, visited |-> {}, pops |-> 0,
     pop_log |-> <<>>, settled |-> <<>>, raised |-> "", stopped |-> FALSE]

\* Mutant: the trivial case is not short-cut.
IsTrivial_Never(start, goal) == FALSE

\* `if start == goal: return PathResult(...)` comes before everything else.
IsTrivial(start, goal) == start = goal

\* The statements after the loop: the goal check, the reconstruction, the result.
Finish(st, start, goal) ==
    IF st.raised # "" THEN Raise("ValueError", st.raised)
    ELSE IF goal \notin DOMAIN st.best_cost THEN Raise("ValueError", NoPath)
    ELSE LET back == Reconstruct(st, start, goal, <<>>, <<>>)
         IN  IF ~back.ok THEN Raise("ValueError", NoPath)
             ELSE PathResult(Reverse(back.nodes), Reverse(back.segments),
                             st.best_distance[goal], st.best_time[goal])

\* shortest_path: the value returned or the error raised, and the search
\* state the call ended in.
shortest_path(edge_list, start, goal, allowed_modes, strategy) ==
    IF IsTrivial(start, goal)
      THEN [result |-> PathResult(<<start>>, <<>>, 0, 0), search |-> NoSearch]
    ELSE IF strategy \notin WeightStrategy
      THEN [result |-> Raise("ValueError", "not a valid WeightStrategy"),
            search |-> NoSearch]
    ELSE LET allowed == _normalise_modes(allowed_modes)
             st == Search(SearchStart(start), edge_list, goal, allowed, strategy)
         IN  [result |-> Finish(st, start, goal), search |-> st]

(***************************************************************************)
(* tsp.py: compute_tour and its helpers.                                   *)
(***************************************************************************)
\* list(dict.fromkeys(targets)): the distinct ids in first-occurrence order.
RECURSIVE fromkeys(_)
fromkeys(s) ==
    IF s = <<>> THEN <<>>
    ELSE LET front == fromkeys(SubSeq(s, 1, Len(s) - 1))
             last == s[Len(s)]
         IN  IF last \in Range(front) THEN front ELSE Append(front, last)

\* list.remove(x): the first occurrence of x is dropped.
remove(list, x) ==
    LET at == CHOOSE i \in DOMAIN list :
                  list[i] = x /\ \A j \in DOMAIN list : list[j] = x => i <= j
    IN  SubSeq(list, 1, at - 1) \o SubSeq(list, at + 1, Len(list))

_path_cost(path, strategy) ==
    IF strategy = DISTANCE THEN path.total_distance ELSE path.total_time

\* Mutant: the destination loop is the outer one.
PairKeys_DestinationOuter(nodes) ==
    LET n == Len(nodes)
        all == [k \in 1..(n * n) |->
                   <<nodes[((k - 1) % n) + 1], nodes[((k - 1) \div n) + 1]>>]
    IN  SelectSeq(all, LAMBDA key : key[1] # key[2])

\* The keys (origin, destination) in the order the nested loops of
\* _precompute_pair_paths reach them, self-pairs skipped.
PairKeys(nodes) ==
    LET n == Len(nodes)
        all == [k \in 1..(n * n) |->
                   <<nodes[((k - 1) \div n) + 1], nodes[((k - 1) % n) + 1]>>]
    IN  SelectSeq(all, LAMBDA key : key[1] # key[2])

\* _precompute_pair_paths: the dict of pair paths, or the pair at which the
\* first ValueError of shortest_path was turned into a TourComputationError.
_precompute_pair_paths(edge_list, nodes, allowed_modes, strategy) ==
    LET keys == PairKeys(nodes)
        found == [k \in DOMAIN keys |->
                     shortest_path(edge_list, keys[k][1], keys[k][2],
                                   allowed_modes, strategy).result]
        failed == {k \in DOMAIN keys : ~found[k].ok}
    IN  IF failed # {}
          THEN LET k == CHOOSE f \in failed : \A g \in failed : f <= g
               IN  [ok |-> FALSE, origin |-> keys[k][1],
                    destination |-> keys[k][2], cause |-> found[k].message,
                    pair_paths |-> <<>>]
        ELSE [ok |-> TRUE, origin |-> "", destination |-> "", cause |-> "",
              pair_paths |-> [key \in Range(keys) |->
                                 found[CHOOSE k \in DOMAIN keys : keys[k] = key]]]

\* min(remaining, key=...): the position of the first element of least key.
ArgMin(cost) ==
    CHOOSE k \in DOMAIN cost :
        \A m \in DOMAIN cost : cost[k] < cost[m] \/ (cost[k] = cost[m] /\ k <= m)

\* The loop `while remaining` of _nearest_neighbour_route.  min(...) calls
\* the key on every element, and pair_paths[(current, node)] raises
\* KeyError for a key that was never computed; of equally cheap elements
\* min returns the first.
RECURSIVE NearestLoop(_, _, _, _, _)
NearestLoop(route, current, remaining, pair_paths, strategy) ==
    IF remaining = <<>> THEN [ok |-> TRUE, route |-> route]
    ELSE IF \E k \in DOMAIN remaining :
                <<current, remaining[k]>> \notin DOMAIN pair_paths
      THEN [ok |-> FALSE, route |-> route]
    ELSE LET cost == [k \in DOMAIN remaining |->
                         _path_cost(pair_paths[<<current, remaining[k]>>],
                                    strategy)]
             first == ArgMin(cost)
             next_node == remaining[first]
         IN  NearestLoop(Append(route, next_node), next_node,
                         remove(remaining, next_node), pair_paths, strategy)

_nearest_neighbour_route(start, targets, pair_paths, strategy) ==
    LET walk == NearestLoop(<<start>>, start, fromkeys(targets), pair_paths,
                            strategy)
    IN  IF walk.ok THEN [ok |-> TRUE, route |-> Append(walk.route, start)]
        ELSE walk

\* math.inf and the finite costs.
inf == [is_inf |-> TRUE, value |-> 0]
Finite(x) == [is_inf |-> FALSE, value |-> x]

_route_cost(route, pair_paths, strategy) ==
    LET keys == [k \in 1..(Len(route) - 1) |-> <<route[k], route[k + 1]>>]
    IN  IF \E k \in DOMAIN keys : keys[k] \notin DOMAIN pair_paths THEN inf
        ELSE Finite(SumSeq([k \in DOMAIN keys |->
                               _path_cost(pair_paths[keys[k]], strategy)]))

\* Mutant: every candidate with a finite cost is taken.
Cheaper_AnyFinite(cost, best_cost) == ~cost.is_inf

\* cost + 1e-9 < best_cost.  The costs are whole multiples of the model's
\* unit, which is far above the tolerance.
Cheaper(cost, best_cost) ==
    /\ ~cost.is_inf
    /\ best_cost.is_inf \/ cost.value < best_cost.value

\* best_route[:i] + best_route[i:j][::-1] + best_route[j:], i and j counted
\* from 0 as in the source.
Candidate(best_route, i, j) ==
    SubSeq(best_route, 1, i) \o Reverse(SubSeq(best_route, i + 1, j))
        \o SubSeq(best_route, j + 1, Len(best_route))

\* The (i, j) the two for loops reach: i in range(1, n - 2),
\* j in range(i + 1, n - 1), adjacent positions skipped.
Moves(n) ==
    {m \in (1..(n - 3)) \X (2..(n - 2)) : m[2] >= m[1] + 1 /\ m[2] - m[1] # 1}

\* One pass of `while improved and iteration < max_iterations`: the first
\* cheaper candidate in scan order replaces best_route and ends the pass.
\* moves logs every replacement: the route replaced, the (i, j) of the
\* candidate, and best_cost before and after.
TwoOptPass(st, pair_paths, strategy) ==
    LET better == {m \in Moves(Len(st.best_route)) :
                      Cheaper(_route_cost(Candidate(st.best_route, m[1], m[2]),
                                          pair_paths, strategy),
                              st.best_cost)}
    IN  IF better = {}
          THEN [st EXCEPT !.improved = FALSE, !.iteration = @ + 1]
        ELSE LET m == CHOOSE a \in better : \A b \in better :
                          a[1] < b[1] \/ (a[1] = b[1] /\ a[2] <= b[2])
                 candidate == Candidate(st.best_route, m[1], m[2])
                 cost == _route_cost(candidate, pair_paths, strategy)
             IN  [best_route |-> candidate,
                  best_cost |-> cost,
                  iteration |-> st.iteration + 1,
                  improved |-> TRUE,
                  accepted |-> st.accepted + 1,
                  moves |-> Append(st.moves,
                                   [route |-> st.best_route, i |-> m[1],
                                    j |-> m[2], before |-> st.best_cost,
                                    after |-> cost])]

\* Mutant: the loop goes on for as long as a pass improved the route.
Continue_WhileImproved(st, max_iterations) == st.improved

\* while improved and iteration < max_iterations
Continue(st, max_iterations) == st.improved /\ st.iteration < max_iterations

RECURSIVE TwoOptLoop(_, _, _, _)
TwoOptLoop(st, pair_paths, strategy, max_iterations) ==
    IF ~Continue(st, max_iterations) THEN st
    ELSE TwoOptLoop(TwoOptPass(st, pair_paths, strategy), pair_paths, strategy,
                    max_iterations)

\* _two_opt with its loop variables as they are when it returns; accepted
\* counts the replacements of best_route.
TwoOptRun(route, pair_paths, strategy, max_iterations) ==
    IF Len(route) <= 3
      THEN [best_route |-> route, best_cost |-> inf, iteration |-> 0,
            improved |-> FALSE, accepted |-> 0, moves |-> <<>>]
    ELSE TwoOptLoop([best_route |-> route,
                     best_cost |-> _route_cost(route, pair_paths, strategy),
                     iteration |-> 0, improved |-> TRUE, accepted |-> 0,
                     moves |-> <<>>],
                    pair_paths, strategy, max_iterations)

_two_opt(route, pair_paths, strategy, max_iterations) ==
    TwoOptRun(route, pair_paths, strategy, max_iterations).best_route

\* Mutant: the running total is overwritten by the last leg.
Accumulate_Overwrites(total, amount) == amount

\* total += amount
Accumulate(total, amount) == total + amount

\* Mutant: the pair is looked up the other way round.
LegPath_Backwards(pair_paths, origin, destination) == pair_paths[<<destination, origin>>]

\* path = pair_paths[(origin, destination)]
LegPath(pair_paths, origin, destination) == pair_paths[<<origin, destination>>]

\* The loop over zip(optimised_route, optimised_route[1:]) of compute_tour.
RECURSIVE BuildLegs(_, _, _)
BuildLegs(acc, route, pair_paths) ==
    IF Len(route) < 2 \/ ~acc.ok THEN acc
    ELSE IF <<route[1], route[2]>> \notin DOMAIN pair_paths
      THEN [acc EXCEPT !.ok = FALSE]
    ELSE LET path == LegPath(pair_paths, route[1], route[2])
         IN  BuildLegs([ok |-> TRUE,
                        legs |-> Append(acc.legs,
                                        [start |-> route[1], end |-> route[2],
                                         path |-> path]),
                        total_distance |->
                            Accumulate(acc.total_distance, path.total_distance),
                        total_time |->
                            Accumulate(acc.total_time, path.total_time)],
                       Tail(route), pair_paths)

TourResult(route, legs, total_distance, total_time) ==
    [ok |-> TRUE, error |-> "", origin |-> "", destination |-> "",
     cause |-> "", route |-> route, legs |-> legs,
     total_distance |-> total_distance, total_time |-> total_time]

\* An exception leaving compute_tour.  A TourComputationError carries the
\* message "No feasible path between {origin!r} and {destination!r}: {cause}".
TourRaise(error, origin, destination, cause) ==
    [ok |-> FALSE, error |-> error, origin |-> origin,
     destination |-> destination, cause |-> cause, route |-> <<>>,
     legs |-> <<>>, total_distance |-> 0, total_time |-> 0]

\* What compute_tour went through: pair_paths, initial_route and the run of
\* _two_opt, each empty when the call ended before it.
NoTwoOpt ==
    [best_route |-> <<>>, best_cost |-> inf, iteration |-> 0,
     improved |-> FALSE, accepted |-> 0, moves |-> <<>>]

TourSteps(result, pair_paths, initial_route, two_opt) ==
    [result |-> result, pair_paths |-> pair_paths,
     initial_route |-> initial_route, two_opt |-> two_opt]

\* compute_tour: the value returned or the exception raised, and the
\* intermediate values of the call.
compute_tour(edge_list, start, targets, allowed_modes, strategy, max_iterations) ==
    IF targets = <<>>
      THEN TourSteps(TourResult(<<start, start>>, <<>>, 0, 0), <<>>, <<>>, NoTwoOpt)
    ELSE IF strategy \notin WeightStrategy
      THEN TourSteps(TourRaise("ValueError", "", "", "not a valid WeightStrategy"),
                     <<>>, <<>>, NoTwoOpt)
    ELSE LET nodes == <<start>> \o fromkeys(targets)
             pre == _precompute_pair_paths(edge_list, nodes, allowed_modes,
                                           strategy)
         IN  IF ~pre.ok
               THEN TourSteps(TourRaise("TourComputationError", pre.origin,
                                        pre.destination, pre.cause),
                              <<>>, <<>>, NoTwoOpt)
             ELSE LET initial == _nearest_neighbour_route(start, targets,
                                                          pre.pair_paths, strategy)
                  IN  IF ~initial.ok
                        THEN TourSteps(TourRaise("KeyError", "", "", ""),
                                       pre.pair_paths, <<>>, NoTwoOpt)
                      ELSE LET run == TwoOptRun(initial.route, pre.pair_paths,
                                                strategy, max_iterations)
                               optimised_route == run.best_route
                               built == BuildLegs([ok |-> TRUE, legs |-> <<>>,
                                                   total_distance |-> 0,
                                                   total_time |-> 0],
                                                  optimised_route, pre.pair_paths)
                           IN  TourSteps(
                                   IF ~built.ok THEN TourRaise("KeyError", "", "", "")
                                   ELSE TourResult(optimised_route, built.legs,
                                                   built.total_distance,
                                                   built.total_time),
                                   pre.pair_paths, initial.route, run)

(***************************************************************************)
(* models/enums.py.                                                        *)
(***************************************************************************)
SCENIC == "scenic"
CAMPUS == "campus"
RegionType == {SCENIC, CAMPUS}

WALK == "walk"
BIKE == "bike"
ELECTRIC_CART == "electric_cart"
TransportMode == {WALK, BIKE, ELECTRIC_CART}

RESTROOM == "restroom"
RESTAURANT == "restaurant"
FacilityCategory ==
    {RESTROOM, RESTAURANT, "shop", "supermarket", "cafe", "atm", "medical",
     "parking", "information", "service"}

(***************************************************************************)
(* The repositories, read from the variable db:                            *)
(*   db.regions     region id -> [type]                                     *)
(*   db.nodes       node id   -> [id, region_id]                            *)
(*   db.edges       the GraphEdge rows, in the order a query returns them   *)
(*   db.facilities  the (Facility, GraphNode) pairs joined on facility_id   *)
(***************************************************************************)
NoRegion == [is_none |-> TRUE, value |-> [type |-> ""]]
NoNode == [is_none |-> TRUE, value |-> [id |-> 0, region_id |-> 0]]
SomeRow(row) == [is_none |-> FALSE, value |-> row]

\* One awaited call of a repository method.
Query(call, arg) == [call |-> call, arg |-> arg]

get_region(region_id) ==
    IF region_id \in DOMAIN db.regions THEN SomeRow(db.regions[region_id])
    ELSE NoRegion

get_node(node_id) ==
    IF node_id \in DOMAIN db.nodes THEN SomeRow(db.nodes[node_id]) ELSE NoNode

list_edges_by_region(region_id) ==
    SelectSeq(db.edges, LAMBDA edge : edge.region_id = region_id)

\* categories is None or a list of parsed categories; `if categories` is
\* false for both None and the empty list.
list_facilities_with_nodes(region_id, categories) ==
    SelectSeq(db.facilities,
              LAMBDA pair :
                  /\ pair.facility.region_id = region_id
                  /\ categories.is_none \/ categories.value = <<>>
                       \/ pair.facility.category \in Range(categories.value))

(***************************************************************************)
(* services/routing.py: RoutingService.                                    *)
(***************************************************************************)
\* str(node_id) for the ids of the model.
str(n) ==
    CASE n = 1 -> "1"
      [] n = 2 -> "2"
      [] n = 3 -> "3"
      [] n = 4 -> "4"
      [] OTHER -> "9"

\* _normalise_mode: the value of an enum member, else str(mode).lower().
_normalise_mode(mode) == lower(mode)

_default_modes(region_type) ==
    IF region_type = CAMPUS THEN {WALK, BIKE}
    ELSE IF region_type = SCENIC THEN {WALK, ELECTRIC_CART}
    ELSE {WALK}

\* Mutant: the requested modes are taken as they are.
ResolveModes_AsRequested(region_type, transport_modes) ==
    LET requested == {_normalise_mode(transport_modes.tags[i]) :
                         i \in DOMAIN transport_modes.tags}
    IN  [raised |-> FALSE,
         modes |-> SortedModes(IF requested = {}
                                 THEN _default_modes(region_type)
                                 ELSE requested)]

\* _resolve_transport_modes: the sorted tuple of allowed modes, or the
\* NodeValidationError raised for an empty intersection.
_resolve_transport_modes(region_type, transport_modes) ==
    LET defaults == _default_modes(region_type)
        requested == {_normalise_mode(transport_modes.tags[i]) :
                         i \in DOMAIN transport_modes.tags}
        filtered == requested \cap defaults
    IN  IF transport_modes.kind = "None"
          THEN [raised |-> FALSE, modes |-> SortedModes(defaults)]
        ELSE IF requested = {}
          THEN [raised |-> FALSE, modes |-> SortedModes(defaults)]
        ELSE IF filtered = {}
          THEN [raised |-> TRUE, modes |-> <<>>]
        ELSE [raised |-> FALSE, modes |-> SortedModes(filtered)]

\* int(node_id) for the identifiers str makes.
int(node_id) ==
    CASE node_id = "1" -> 1
      [] node_id = "2" -> 2
      [] node_id = "3" -> 3
      [] node_id = "4" -> 4
      [] OTHER -> 9

\* AlgoEdge(source=str(edge.start_node_id), ...) for one row.
AlgoEdge(row) ==
    Edge(str(row.start_node_id), str(row.end_node_id), row.distance,
         row.ideal_speed, row.congestion,
         [k \in DOMAIN row.transport_modes |->
             _normalise_mode(row.transport_modes[k])])

\* The rows Edge.__post_init__ refuses.
Malformed(rows) == {i \in DOMAIN rows : ~AlgoEdge(rows[i]).ok}

\* _to_algorithm_edges, for rows that all pass Edge's checks.
_to_algorithm_edges(rows) == [i \in DOMAIN rows |-> AlgoEdge(rows[i]).edge]

\* _get_node_cached: the cache after the call, the node it returns and the
\* repository calls it made.
_get_node_cached(nodes_cache, node_id) ==
    LET node == get_node(node_id)
        filled == IF node_id \notin DOMAIN nodes_cache /\ ~node.is_none
                    THEN Put(nodes_cache, node_id, node.value)
                    ELSE nodes_cache
    IN  [nodes_cache |-> filled,
         node |-> IF node_id \in DOMAIN filled THEN SomeRow(filled[node_id])
                  ELSE NoNode,
         queries |-> IF node_id \notin DOMAIN nodes_cache
                       THEN <<Query("get_node", node_id)>> ELSE <<>>]

\* Mutant: an empty list does not count as cached.
EdgesCached_WhenFilled(edges_cache, region_id) ==
    region_id \in DOMAIN edges_cache /\ edges_cache[region_id] # <<>>

\* region_id not in self._edges_cache, negated
EdgesCached(edges_cache, region_id) == region_id \in DOMAIN edges_cache

\* _get_edges_cached: the cache after the call, the list it returns and the
\* repository calls it made.
_get_edges_cached(edges_cache, region_id) ==
    LET hit == EdgesCached(edges_cache, region_id)
        filled == IF ~hit
                    THEN Put(edges_cache, region_id,
                             list_edges_by_region(region_id))
                    ELSE edges_cache
    IN  [edges_cache |-> filled, edges |-> filled[region_id],
         queries |-> IF ~hit
                       THEN <<Query("list_edges_by_region", region_id)>>
                       ELSE <<>>]

\* `/ 60` of the speed: the time of an edge in minutes.
MinuteFactor == 60

\* time = distance / (edge.ideal_speed * edge.congestion / 60)
EdgeMinutes(edge) ==
    (MinuteFactor * TimeScale * Tenth * Tenth * edge.distance)
        \div (edge.ideal_speed * edge.congestion)

\* The rows that pass `edge_modes.intersection(allowed_modes)`.
AllowedRows(rows, allowed_modes) ==
    SelectSeq(rows, LAMBDA edge :
                  Range(edge.transport_modes) \cap Range(allowed_modes) # {})

\* graph.get(node, []): one (neighbor_id, distance, time) entry per allowed
\* row that starts at node and one per allowed row that ends at it, in row
\* order.
RECURSIVE graph(_, _)
graph(rows, node) ==
    IF rows = <<>> THEN <<>>
    ELSE LET edge == Head(rows)
             forth == IF edge.start_node_id = node
                        THEN <<[neighbor_id |-> edge.end_node_id,
                                distance |-> edge.distance,
                                time |-> EdgeMinutes(edge)]>>
                        ELSE <<>>
             back == IF edge.end_node_id = node
                       THEN <<[neighbor_id |-> edge.start_node_id,
                               distance |-> edge.distance,
                               time |-> EdgeMinutes(edge)]>>
                       ELSE <<>>
         IN  forth \o back \o graph(Tail(rows), node)

\* Tuple order on the heap entries (priority, node_id, distance, time).
TupleLess(a, b) ==
    \/ a.priority < b.priority
    \/ /\ a.priority = b.priority
       /\ \/ a.node_id < b.node_id
          \/ /\ a.node_id = b.node_id
             /\ \/ a.distance < b.distance
                \/ a.distance = b.distance /\ a.time < b.time

heappop(heap) == CHOOSE a \in heap : \A b \in heap : a = b \/ TupleLess(a, b)

\* The state of the search of compute_reachable_nodes:
\*   heap, distances, times, parents, processed   as in the source
\*   keys      the keys of distances in insertion order
\*   expanded  the nodes whose neighbours were visited, in order
\*   pop_log   one entry per heappop: the node and the distance popped, and
\*             whether the loop went on to relax the node's neighbours
ReachStart(origin_node_id) ==
    [heap |-> {[priority |-> 0, node_id |-> origin_node_id, distance |-> 0,
                time |-> 0]},
     distances |-> [n \in {origin_node_id} |-> 0],
     times |-> [n \in {origin_node_id} |-> 0],
     parents |-> [n \in {origin_node_id} |-> NoNumber],
     keys |-> <<origin_node_id>>,
     processed |-> {},
     expanded |-> <<>>,
     pop_log |-> <<>>]

NoReachSearch ==
    [heap |-> {}, distances |-> <<>>, times |-> <<>>, parents |-> <<>>,
     keys |-> <<>>, processed |-> {}, expanded |-> <<>>, pop_log |-> <<>>]

\* Mutant: the budget is not looked at.
OverBudget_Never(max_distance, current_distance) == FALSE

\* max_distance is not None and current_distance > max_distance
OverBudget(max_distance, current_distance) ==
    ~max_distance.is_none /\ current_distance > max_distance.value

\* neighbor_id not in distances or new_distance < distances[neighbor_id]
ReachImproves(st, neighbor_id, new_distance) ==
    neighbor_id \notin DOMAIN st.distances
        \/ new_distance < st.distances[neighbor_id]

\* The body of `for neighbor_id, edge_distance, edge_time in neighbors`.
ReachRelax(st, current, neighbor, strategy) ==
    LET new_distance == current.distance + neighbor.distance
        new_time == current.time + neighbor.time
        id == neighbor.neighbor_id
    IN  IF id \in st.processed THEN st
        ELSE IF ReachImproves(st, id, new_distance)
          THEN [st EXCEPT
                  !.keys = IF id \in DOMAIN st.distances THEN @
                           ELSE Append(@, id),
                  !.distances = Put(@, id, new_distance),
                  !.times = Put(@, id, new_time),
                  !.parents = Put(@, id, SomeNumber(current.node_id)),
                  !.heap = @ \cup
                      {[priority |-> IF strategy = DISTANCE THEN new_distance
                                     ELSE new_time,
                        node_id |-> id, distance |-> new_distance,
                        time |-> new_time]}]
        ELSE st

RECURSIVE ReachRelaxAll(_, _, _, _)
ReachRelaxAll(st, current, neighbors, strategy) ==
    IF neighbors = <<>> THEN st
    ELSE ReachRelaxAll(ReachRelax(st, current, Head(neighbors), strategy),
                       current, Tail(neighbors), strategy)

\* One iteration of `while heap`.
ReachStep(st, rows, max_distance, strategy) ==
    LET current == heappop(st.heap)
        popped(relaxes) ==
            [st EXCEPT !.heap = @ \ {current},
                       !.pop_log = Append(@, [node_id |-> current.node_id,
                                              distance |-> current.distance,
                                              relaxes |-> relaxes])]
    IN  IF current.node_id \in st.processed THEN popped(FALSE)
        ELSE IF OverBudget(max_distance, current.distance)
          THEN [popped(FALSE) EXCEPT !.processed = @ \cup {current.node_id}]
        ELSE ReachRelaxAll(
                 [popped(TRUE) EXCEPT
                     !.processed = @ \cup {current.node_id},
                     !.expanded = Append(@, current.node_id)],
                 current, graph(rows, current.node_id), strategy)

RECURSIVE ReachSearch(_, _, _, _)
ReachSearch(st, rows, max_distance, strategy) ==
    IF st.heap = {} THEN st
    ELSE ReachSearch(ReachStep(st, rows, max_distance, strategy), rows,
                     max_distance, strategy)

\* `while current is not None: path.append(current); current =
\* parents.get(current)`, the path still in node-to-origin order.
RECURSIVE PathBack(_, _, _)
PathBack(parents, current, path) ==
    IF current.is_none THEN path
    ELSE PathBack(parents,
                  IF current.value \in DOMAIN parents
                    THEN parents[current.value] ELSE NoNumber,
                  Append(path, current.value))

\* The loop `for node_id in distances`: the entries of the returned dict in
\* insertion order.
Visited(st, origin_node_id) ==
    [k \in DOMAIN st.keys |->
        LET node_id == st.keys[k]
        IN  IF node_id = origin_node_id
              THEN [node_id |-> node_id, distance |-> 0, time |-> 0,
                    path |-> <<origin_node_id>>]
            ELSE [node_id |-> node_id, distance |-> st.distances[node_id],
                  time |-> st.times[node_id],
                  path |-> Reverse(PathBack(st.parents, SomeNumber(node_id),
                                            <<>>))]]

ReachResult(visited) == [ok |-> TRUE, error |-> "", visited |-> visited]
ServiceRaise(error) == [ok |-> FALSE, error |-> error, visited |-> <<>>]

\* Mutant: only a missing origin is refused.
OriginRefused_MissingOnly(origin_node, region_id) == origin_node.is_none

\* origin_node is None or origin_node.region_id != region_id
OriginRefused(origin_node, region_id) ==
    origin_node.is_none \/ origin_node.value.region_id # region_id

\* compute_reachable_nodes: what it returns or raises, the two caches as it
\* leaves them, the repository calls it awaited, the edge list it worked on,
\* the allowed modes it resolved and the search it ran.
compute_reachable_nodes(edges_cache, nodes_cache, region_id, origin_node_id, max_distance, strategy, transport_modes) ==
    LET region == get_region(region_id)
        origin == _get_node_cached(nodes_cache, origin_node_id)
        loaded == _get_edges_cached(edges_cache, region_id)
        allowed == _resolve_transport_modes(region.value.type, transport_modes)
        rows == AllowedRows(loaded.edges, allowed.modes)
        st == ReachSearch(ReachStart(origin_node_id), rows, max_distance,
                          strategy)
        asked == <<Query("get_region", region_id)>>
        looked == asked \o origin.queries
        listed == looked \o loaded.queries
        stop(result, e_cache, n_cache, queries, list) ==
            [result |-> result, edges_cache |-> e_cache,
             nodes_cache |-> n_cache, queries |-> queries, edges |-> list,
             allowed_modes |-> <<>>, search |-> NoReachSearch]
    IN  IF region.is_none
          THEN stop(ServiceRaise("RegionNotFoundError"), edges_cache,
                    nodes_cache, asked, <<>>)
        ELSE IF OriginRefused(origin.node, region_id)
          THEN stop(ServiceRaise("NodeValidationError"), edges_cache,
                    origin.nodes_cache, looked, <<>>)
        ELSE IF loaded.edges = <<>>
          THEN stop(ReachResult(<<>>), loaded.edges_cache, origin.nodes_cache,
                    listed, loaded.edges)
        ELSE IF allowed.raised
          THEN stop(ServiceRaise("NodeValidationError"), loaded.edges_cache,
                    origin.nodes_cache, listed, loaded.edges)
        ELSE IF strategy \notin WeightStrategy
          THEN stop(ServiceRaise("ValueError"), loaded.edges_cache,
                    origin.nodes_cache, listed, loaded.edges)
        ELSE [result |-> ReachResult(Visited(st, origin_node_id)),
              edges_cache |-> loaded.edges_cache,
              nodes_cache |-> origin.nodes_cache,
              queries |-> listed, edges |-> loaded.edges,
              allowed_modes |-> allowed.modes,
              search |-> st]

(***************************************************************************)
(* services/routing.py: RoutingService.compute_route.                      *)
(***************************************************************************)
\* get_nodes(node_ids): the rows whose id is among node_ids.
get_nodes(node_ids) == {n \in DOMAIN db.nodes : n \in node_ids}

\* Mutant: only the start node is checked.
FetchAndValidate_StartOnly(nodes_cache, region_id, start_node_id, end_node_id) ==
    LET first == _get_node_cached(nodes_cache, start_node_id)
        second == _get_node_cached(first.nodes_cache, end_node_id)
    IN  [nodes_cache |-> second.nodes_cache,
         queries |-> first.queries \o second.queries,
         raised |-> IF first.node.is_none THEN "Nodes not found"
                    ELSE IF first.node.value.region_id # region_id
                      THEN "Nodes must belong to the specified region"
                    ELSE ""]

\* _fetch_and_validate_nodes: both nodes are looked up before either is
\* checked.
_fetch_and_validate_nodes(nodes_cache, region_id, start_node_id, end_node_id) ==
    LET first == _get_node_cached(nodes_cache, start_node_id)
        second == _get_node_cached(first.nodes_cache, end_node_id)
        start_node == first.node
        end_node == second.node
    IN  [nodes_cache |-> second.nodes_cache,
         queries |-> first.queries \o second.queries,
         raised |->
            IF start_node.is_none \/ end_node.is_none
              THEN "Nodes not found"
            ELSE IF start_node.value.region_id # region_id
                      \/ end_node.value.region_id # region_id
              THEN "Nodes must belong to the specified region"
            ELSE ""]

\* _build_node_map: the ids not in the cache are queried in one call and
\* every row that comes back is stored in the cache.
_build_node_map(nodes_cache, region_id, node_ids) ==
    LET unique_ids == {int(node_ids[i]) : i \in DOMAIN node_ids}
        uncached_ids == unique_ids \ DOMAIN nodes_cache
        nodes == get_nodes(uncached_ids)
        mapping == (unique_ids \cap DOMAIN nodes_cache) \cup nodes
    IN  [nodes_cache |->
            [n \in DOMAIN nodes_cache \cup nodes |->
                IF n \in nodes THEN db.nodes[n] ELSE nodes_cache[n]],
         queries |-> IF uncached_ids # {}
                       THEN <<Query("get_nodes", uncached_ids)>> ELSE <<>>,
         raised |-> IF Cardinality(mapping) # Cardinality(unique_ids)
                      THEN "Missing nodes in region" ELSE ""]

\* _to_route_segment on a segment whose nodes are in the node map.
_to_route_segment(segment) ==
    [source_id |-> int(segment.source), target_id |-> int(segment.target),
     transport_mode |-> segment.transport_mode,
     distance |-> segment.distance, time |-> segment.time]

RoutePlan(region_id, strategy, total_distance, total_time, allowed_modes, nodes, segments) ==
    [ok |-> TRUE, error |-> "", message |-> "", region_id |-> region_id,
     strategy |-> strategy, total_distance |-> total_distance,
     total_time |-> total_time, allowed_modes |-> allowed_modes,
     nodes |-> nodes, segments |-> segments]

RouteRaise(error, message) ==
    [ok |-> FALSE, error |-> error, message |-> message, region_id |-> 0,
     strategy |-> "", total_distance |-> 0, total_time |-> 0,
     allowed_modes |-> <<>>, nodes |-> <<>>, segments |-> <<>>]

\* Mutant: every ValueError of the solver is passed on as it is.
RouteError_Unwrapped(exc) == [error |-> exc.error, message |-> exc.message]

\* except ValueError as exc: raise RouteNotFoundError(str(exc)) from exc
RouteError(exc) == [error |-> "RouteNotFoundError", message |-> exc.message]

\* compute_route: what it returns or raises, the two caches as it leaves
\* them, the repository calls it awaited, the edge list it worked on, the
\* allowed modes it resolved and the search shortest_path ran.
compute_route(edges_cache, nodes_cache, region_id, start_node_id, end_node_id, strategy, transport_modes) ==
    LET region == get_region(region_id)
        checked == _fetch_and_validate_nodes(nodes_cache, region_id,
                                             start_node_id, end_node_id)
        loaded == _get_edges_cached(edges_cache, region_id)
        malformed == Malformed(loaded.edges)
        algorithm_edges == _to_algorithm_edges(loaded.edges)
        allowed == _resolve_transport_modes(region.value.type, transport_modes)
        solved == shortest_path(algorithm_edges, str(start_node_id),
                                str(end_node_id), ModeSeq(allowed.modes),
                                strategy)
        node_map == _build_node_map(checked.nodes_cache, region_id,
                                    solved.result.nodes)
        asked == <<Query("get_region", region_id)>>
        looked == asked \o checked.queries
        listed == looked \o loaded.queries
        stop(result, e_cache, n_cache, queries, list, modes, search) ==
            [result |-> result, edges_cache |-> e_cache,
             nodes_cache |-> n_cache, queries |-> queries, edges |-> list,
             allowed_modes |-> modes, search |-> search]
    IN  IF region.is_none
          THEN stop(RouteRaise("RegionNotFoundError", "does not exist"),
                    edges_cache, nodes_cache, asked, <<>>, <<>>, NoSearch)
        ELSE IF checked.raised # ""
          THEN stop(RouteRaise("NodeValidationError", checked.raised),
                    edges_cache, checked.nodes_cache, looked, <<>>, <<>>,
                    NoSearch)
        ELSE IF loaded.edges = <<>>
          THEN stop(RouteRaise("RouteNotFoundError", "has no routing edges"),
                    loaded.edges_cache, checked.nodes_cache, listed,
                    loaded.edges, <<>>, NoSearch)
        ELSE IF malformed # {}
          THEN stop(RouteRaise("ValueError",
                        AlgoEdge(loaded.edges[CHOOSE i \in malformed :
                            \A j \in malformed : i <= j]).message),
                    loaded.edges_cache, checked.nodes_cache, listed,
                    loaded.edges, <<>>, NoSearch)
        ELSE IF allowed.raised
          THEN stop(RouteRaise("NodeValidationError",
                        "Provided transport modes are not allowed in this region"),
                    loaded.edges_cache, checked.nodes_cache, listed,
                    loaded.edges, <<>>, NoSearch)
        ELSE IF ~solved.result.ok
          THEN stop(RouteRaise(RouteError(solved.result).error,
                               RouteError(solved.result).message),
                    loaded.edges_cache, checked.nodes_cache, listed,
                    loaded.edges, allowed.modes, solved.search)
        ELSE IF node_map.raised # ""
          THEN stop(RouteRaise("NodeValidationError", node_map.raised),
                    loaded.edges_cache, node_map.nodes_cache,
                    listed \o node_map.queries, loaded.edges, allowed.modes,
                    solved.search)
        ELSE IF strategy \notin WeightStrategy
          THEN stop(RouteRaise("ValueError", "not a valid WeightStrategy"),
                    loaded.edges_cache, node_map.nodes_cache,
                    listed \o node_map.queries, loaded.edges, allowed.modes,
                    solved.search)
        ELSE stop(RoutePlan(region_id, strategy, solved.result.total_distance,
                            solved.result.total_time, allowed.modes,
                            [i \in DOMAIN solved.result.nodes |->
                                int(solved.result.nodes[i])],
                            [i \in DOMAIN solved.result.segments |->
                                _to_route_segment(solved.result.segments[i])]),
                  loaded.edges_cache, node_map.nodes_cache,
                  listed \o node_map.queries, loaded.edges, allowed.modes,
                  solved.search)

(***************************************************************************)
(* services/facility.py: FacilityService.find_nearby_facilities.           *)
(***************************************************************************)
NoList == [is_none |-> TRUE, value |-> <<>>]
NoFacility ==
    [is_none |-> TRUE, value |-> [id |-> 0, region_id |-> 0, category |-> ""]]
SomeList(list) == [is_none |-> FALSE, value |-> list]

\* facility_by_node_id.get(node_id): of the pairs on one node the last one
\* stays in the dict.
facility_by_node_id(facility_nodes, node_id) ==
    LET at == {i \in DOMAIN facility_nodes :
                  facility_nodes[i].node.id = node_id}
    IN  IF at = {} THEN NoFacility
        ELSE SomeRow(facility_nodes[CHOOSE i \in at : \A j \in at : j <= i].facility)

\* The loop over reachable_paths.items().
RECURSIVE FacilityRoutes(_, _, _)
FacilityRoutes(reachable_paths, facility_nodes, weight_strategy) ==
    IF reachable_paths = <<>> THEN <<>>
    ELSE LET path_info == Head(reachable_paths)
             facility == facility_by_node_id(facility_nodes, path_info.node_id)
             rest == FacilityRoutes(Tail(reachable_paths), facility_nodes,
                                    weight_strategy)
         IN  IF facility.is_none THEN rest
             ELSE <<[facility_id |-> facility.value.id,
                     category |-> facility.value.category,
                     distance |-> path_info.distance,
                     travel_time |-> path_info.time,
                     node_sequence |-> path_info.path,
                     strategy |-> weight_strategy]>> \o rest

\* The key of results.sort(key=...).
SortKey(item, weight_strategy) ==
    IF weight_strategy = DISTANCE THEN item.distance ELSE item.travel_time

\* list.sort is stable: an item goes behind the items whose key is not
\* greater than its own.
RECURSIVE sort(_, _)
sort(results, weight_strategy) ==
    IF results = <<>> THEN <<>>
    ELSE LET front == sort(SubSeq(results, 1, Len(results) - 1), weight_strategy)
             item == results[Len(results)]
             before == SelectSeq(front, LAMBDA r :
                           SortKey(r, weight_strategy) <= SortKey(item, weight_strategy))
             after == SelectSeq(front, LAMBDA r :
                           SortKey(r, weight_strategy) > SortKey(item, weight_strategy))
         IN  before \o <<item>> \o after

\* if limit > 0: results = results[:limit]
Limited(results, limit) ==
    IF limit > 0 /\ limit < Len(results) THEN SubSeq(results, 1, limit)
    ELSE results

FacilityResult(results, reachable_paths) ==
    [ok |-> TRUE, error |-> "", results |-> results,
     reachable_paths |-> reachable_paths]
FacilityRaise(error) ==
    [ok |-> FALSE, error |-> error, results |-> <<>>,
     reachable_paths |-> <<>>]

\* find_nearby_facilities: what it returns or raises and the caches of its
\* routing service as the call leaves them.
find_nearby_facilities(edges_cache, nodes_cache, region_id, origin_node_id, radius_meters, limit, strategy, categories, transport_modes) ==
    LET region == get_region(region_id)
        origin_node == get_node(origin_node_id)
        facility_nodes == list_facilities_with_nodes(region_id, categories)
        run == compute_reachable_nodes(edges_cache, nodes_cache, region_id,
                                       origin_node_id, radius_meters, strategy,
                                       transport_modes)
        results == sort(FacilityRoutes(run.result.visited, facility_nodes,
                                       strategy),
                        strategy)
        asked == <<Query("get_region", region_id)>>
        looked == asked \o <<Query("get_node", origin_node_id)>>
        listed == looked \o <<Query("list_facilities_with_nodes", region_id)>>
        stop(result, queries) ==
            [result |-> result, edges_cache |-> edges_cache,
             nodes_cache |-> nodes_cache, queries |-> queries]
    IN  IF region.is_none
          THEN stop(FacilityRaise("RegionNotFoundError"), asked)
        ELSE IF origin_node.is_none \/ origin_node.value.region_id # region_id
          THEN stop(FacilityRaise("NodeValidationError"), looked)
        ELSE IF /\ ~categories.is_none
                /\ Range(categories.value) \ FacilityCategory # {}
          THEN stop(FacilityRaise("ValueError"), looked)
        ELSE IF facility_nodes = <<>>
          THEN stop(FacilityResult(<<>>, <<>>), listed)
        ELSE IF strategy \notin WeightStrategy
          THEN stop(FacilityRaise("ValueError"), listed)
        ELSE IF ~run.result.ok
          THEN [result |-> FacilityRaise(run.result.error),
                edges_cache |-> run.edges_cache,
                nodes_cache |-> run.nodes_cache,
                queries |-> listed \o run.queries]
        ELSE [result |-> FacilityResult(Limited(results, limit),
                                        run.result.visited),
              edges_cache |-> run.edges_cache,
              nodes_cache |-> run.nodes_cache,
              queries |-> listed \o run.queries]

\* No store into either cache yet.
NoStores == [edges |-> <<>>, nodes |-> <<>>]

\* One more store under key of the cache named which.
Store(count, which, key) ==
    [count EXCEPT ![which] =
        Put(@, key, (IF key \in DOMAIN @ THEN @[key] ELSE 0) + 1)]

RECURSIVE StoreAll(_, _, _)
StoreAll(count, which, keys) ==
    IF keys = {} THEN count
    ELSE LET key == CHOOSE k \in keys : TRUE
         IN  StoreAll(Store(count, which, key), which, keys \ {key})

(***************************************************************************)
(* services/routing.py: a call of the service as a coroutine.  The event   *)
(* loop runs one coroutine at a time and may switch to another one only at  *)
(* an `await` of a repository method, so a coroutine is the call it is     *)
(* suspended in together with its local variables, and one step of it runs *)
(* from the return of that call to the next such call or to the end.       *)
(***************************************************************************)
\* compute_route(...) or compute_reachable_nodes(...) as it is created: it
\* suspends first in get_region.
Coroutine(op, region_id, start_node_id, end_node_id, max_distance, strategy, transport_modes) ==
    [op |-> op, awaiting |-> "get_region", at |-> "",
     region_id |-> region_id, start_node_id |-> start_node_id,
     end_node_id |-> end_node_id, max_distance |-> max_distance,
     strategy |-> strategy, transport_modes |-> transport_modes,
     region |-> NoRegion, start_node |-> NoNode, end_node |-> NoNode,
     result_path |-> Raise("", ""), allowed_modes |-> <<>>, unique_ids |-> {},
     mapping |-> {}, uncached_ids |-> {},
     done |-> FALSE, route |-> RouteRaise("", ""),
     visited |-> ServiceRaise("")]

Suspend(t, call) == [t EXCEPT !.awaiting = call]

\* return or raise of compute_route
RouteEnds(t, result) ==
    [t EXCEPT !.awaiting = "", !.done = TRUE, !.route = result]

\* return or raise of compute_reachable_nodes
ReachEnds(t, result) ==
    [t EXCEPT !.awaiting = "", !.done = TRUE, !.visited = result]

\* _build_node_map from `if len(mapping) != len(unique_ids)` on, and the
\* rest of compute_route.
RouteFinish(t) ==
    IF Cardinality(t.mapping) # Cardinality(t.unique_ids)
      THEN RouteEnds(t, RouteRaise("NodeValidationError",
                                   "Missing nodes in region"))
    ELSE IF t.strategy \notin WeightStrategy
      THEN RouteEnds(t, RouteRaise("ValueError",
                                   "not a valid WeightStrategy"))
    ELSE RouteEnds(t,
            RoutePlan(t.region_id, t.strategy, t.result_path.total_distance,
                      t.result_path.total_time, t.allowed_modes,
                      [i \in DOMAIN t.result_path.nodes |->
                          int(t.result_path.nodes[i])],
                      [i \in DOMAIN t.result_path.segments |->
                          _to_route_segment(t.result_path.segments[i])]))

\* _build_node_map up to its await: the ids the cache holds go into the
\* mapping, the others are asked for if there are any.
RouteNodeMap(t, nodes_cache) ==
    LET unique_ids ==
            {int(t.result_path.nodes[i]) : i \in DOMAIN t.result_path.nodes}
        filled == [t EXCEPT !.unique_ids = unique_ids,
                            !.mapping = unique_ids \cap DOMAIN nodes_cache,
                            !.uncached_ids = unique_ids \ DOMAIN nodes_cache]
    IN  IF filled.uncached_ids # {} THEN Suspend(filled, "get_nodes")
        ELSE RouteFinish(filled)

\* compute_route from `if not edges` on.
RouteSolve(t, list, nodes_cache) ==
    LET malformed == Malformed(list)
        allowed == _resolve_transport_modes(t.region.value.type,
                                            t.transport_modes)
        solved == shortest_path(_to_algorithm_edges(list),
                                str(t.start_node_id), str(t.end_node_id),
                                ModeSeq(allowed.modes), t.strategy)
    IN  IF list = <<>>
          THEN RouteEnds(t, RouteRaise("RouteNotFoundError",
                                       "has no routing edges"))
        ELSE IF malformed # {}
          THEN RouteEnds(t, RouteRaise("ValueError",
                            AlgoEdge(list[CHOOSE i \in malformed :
                                \A j \in malformed : i <= j]).message))
        ELSE IF allowed.raised
          THEN RouteEnds(t, RouteRaise("NodeValidationError",
                    "Provided transport modes are not allowed in this region"))
        ELSE IF ~solved.result.ok
          THEN RouteEnds(t, RouteRaise(RouteError(solved.result).error,
                                       RouteError(solved.result).message))
        ELSE RouteNodeMap([t EXCEPT !.result_path = solved.result,
                                    !.allowed_modes = allowed.modes],
                          nodes_cache)

\* compute_reachable_nodes from `if not edges` on.
ReachSolve(t, list) ==
    LET allowed == _resolve_transport_modes(t.region.value.type,
                                            t.transport_modes)
        st == ReachSearch(ReachStart(t.start_node_id),
                          AllowedRows(list, allowed.modes), t.max_distance,
                          t.strategy)
    IN  IF list = <<>> THEN ReachEnds(t, ReachResult(<<>>))
        ELSE IF allowed.raised
          THEN ReachEnds(t, ServiceRaise("NodeValidationError"))
        ELSE IF t.strategy \notin WeightStrategy
          THEN ReachEnds(t, ServiceRaise("ValueError"))
        ELSE ReachEnds(t, ReachResult(Visited(st, t.start_node_id)))

\* `return self._edges_cache[region_id]` of _get_edges_cached and what the
\* caller does with the list.
Solve(t, edges_cache, nodes_cache) ==
    IF t.op = "compute_route"
      THEN RouteSolve(t, edges_cache[t.region_id], nodes_cache)
      ELSE ReachSolve(t, edges_cache[t.region_id])

\* _get_edges_cached up to its await.
LoadEdges(t, edges_cache, nodes_cache) ==
    IF EdgesCached(edges_cache, t.region_id)
      THEN Solve(t, edges_cache, nodes_cache)
      ELSE Suspend(t, "list_edges_by_region")

\* The checks on the nodes that were looked up: those of
\* _fetch_and_validate_nodes, or the one on the origin.
Validate(t, edges_cache, nodes_cache) ==
    IF t.op = "compute_route"
      THEN IF t.start_node.is_none \/ t.end_node.is_none
             THEN RouteEnds(t, RouteRaise("NodeValidationError",
                                          "Nodes not found"))
           ELSE IF t.start_node.value.region_id # t.region_id
                     \/ t.end_node.value.region_id # t.region_id
             THEN RouteEnds(t, RouteRaise("NodeValidationError",
                            "Nodes must belong to the specified region"))
           ELSE LoadEdges(t, edges_cache, nodes_cache)
    ELSE IF OriginRefused(t.start_node, t.region_id)
      THEN ReachEnds(t, ServiceRaise("NodeValidationError"))
    ELSE LoadEdges(t, edges_cache, nodes_cache)

\* _get_node_cached(end_node_id) up to its await; compute_reachable_nodes
\* has no second node.
LookupEnd(t, edges_cache, nodes_cache) ==
    IF t.op # "compute_route" THEN Validate(t, edges_cache, nodes_cache)
    ELSE IF t.end_node_id \in DOMAIN nodes_cache
      THEN Validate([t EXCEPT !.end_node =
                                  SomeRow(nodes_cache[t.end_node_id])],
                    edges_cache, nodes_cache)
    ELSE Suspend([t EXCEPT !.at = "end_node"], "get_node")

\* _get_node_cached(start_node_id), or (origin_node_id), up to its await.
LookupStart(t, edges_cache, nodes_cache) ==
    IF t.start_node_id \in DOMAIN nodes_cache
      THEN LookupEnd([t EXCEPT !.start_node =
                                   SomeRow(nodes_cache[t.start_node_id])],
                     edges_cache, nodes_cache)
    ELSE Suspend([t EXCEPT !.at = "start_node"], "get_node")

\* The repository call a coroutine is suspended in returns: what the
\* coroutine stores in the caches and where it gets to.
Resumed(t, edges_cache, nodes_cache, count) ==
    LET region == get_region(t.region_id)
        node_id == IF t.at = "start_node" THEN t.start_node_id
                   ELSE t.end_node_id
        node == get_node(node_id)
        looked == IF node.is_none THEN nodes_cache
                  ELSE Put(nodes_cache, node_id, node.value)
        found == IF node_id \in DOMAIN looked THEN SomeRow(looked[node_id])
                 ELSE NoNode
        listed == Put(edges_cache, t.region_id,
                      list_edges_by_region(t.region_id))
        nodes == get_nodes(t.uncached_ids)
        mapped == [n \in DOMAIN nodes_cache \cup nodes |->
                      IF n \in nodes THEN db.nodes[n] ELSE nodes_cache[n]]
        leave(task, e_cache, n_cache, stored) ==
            [task |-> task, edges_cache |-> e_cache, nodes_cache |-> n_cache,
             stores |-> stored]
    IN  IF t.awaiting = "get_region"
          THEN leave(IF ~region.is_none
                       THEN LookupStart([t EXCEPT !.region = region],
                                        edges_cache, nodes_cache)
                     ELSE IF t.op = "compute_route"
                       THEN RouteEnds(t, RouteRaise("RegionNotFoundError",
                                                    "does not exist"))
                     ELSE ReachEnds(t, ServiceRaise("RegionNotFoundError")),
                     edges_cache, nodes_cache, count)
        ELSE IF t.awaiting = "get_node" /\ t.at = "start_node"
          THEN leave(LookupEnd([t EXCEPT !.start_node = found], edges_cache,
                               looked),
                     edges_cache, looked,
                     StoreAll(count, "nodes", get_nodes({node_id})))
        ELSE IF t.awaiting = "get_node"
          THEN leave(Validate([t EXCEPT !.end_node = found], edges_cache,
                              looked),
                     edges_cache, looked,
                     StoreAll(count, "nodes", get_nodes({node_id})))
        ELSE IF t.awaiting = "list_edges_by_region"
          THEN leave(Solve(t, listed, nodes_cache), listed, nodes_cache,
                     Store(count, "edges", t.region_id))
        ELSE leave(RouteFinish([t EXCEPT !.mapping = @ \cup nodes]),
                   edges_cache, mapped, StoreAll(count, "nodes", nodes))

(***************************************************************************)
(* The state machine.                                                      *)
(***************************************************************************)
NoCtor ==
    [called |-> FALSE, source |-> "", target |-> "", distance |-> 0,
     ideal_speed |-> 0, congestion |-> 0, transport_modes |-> <<>>,
     ok |-> FALSE, message |-> ""]

NoCall ==
    [called |-> FALSE, start |-> "", goal |-> "", allowed_modes |-> NoModes,
     strategy |-> "", result |-> Raise("", ""), search |-> NoSearch]

NoTour ==
    [called |-> FALSE, start |-> "", targets |-> <<>>,
     allowed_modes |-> NoModes, strategy |-> "", max_iterations |-> 0,
     result |-> TourRaise("", "", "", ""), pair_paths |-> <<>>,
     initial_route |-> <<>>, two_opt |-> NoTwoOpt]

NoReach ==
    [called |-> FALSE, region_id |-> 0, origin_node_id |-> 0,
     max_distance |-> NoNumber, strategy |-> "", transport_modes |-> NoModes,
     result |-> ServiceRaise(""), queries |-> <<>>, edges |-> <<>>,
     allowed_modes |-> <<>>, search |-> NoReachSearch]

NoNearby ==
    [called |-> FALSE, region_id |-> 0, origin_node_id |-> 0,
     radius_meters |-> NoNumber, limit |-> 0, strategy |-> "",
     categories |-> NoList, transport_modes |-> NoModes,
     result |-> FacilityRaise(""), queries |-> <<>>]

NoRoute ==
    [called |-> FALSE, region_id |-> 0, start_node_id |-> 0,
     end_node_id |-> 0, strategy |-> "", transport_modes |-> NoModes,
     result |-> RouteRaise("", ""), queries |-> <<>>, edges |-> <<>>,
     allowed_modes |-> <<>>, search |-> NoSearch]

\* fetched after a call that awaited queries: one more for every
\* list_edges_by_region among them.
RECURSIVE Counted(_, _)
Counted(count, queries) ==
    IF queries = <<>> THEN count
    ELSE LET q == Head(queries)
             seen == IF q.arg \in DOMAIN count THEN count[q.arg] ELSE 0
         IN  Counted(IF q.call = "list_edges_by_region"
                       THEN Put(count, q.arg, seen + 1) ELSE count,
                     Tail(queries))

\* stores after a call that awaited queries: the edge list of every
\* list_edges_by_region is stored, and every row a get_node or a get_nodes
\* brought back.
RECURSIVE Stored(_, _)
Stored(count, queries) ==
    IF queries = <<>> THEN count
    ELSE LET q == Head(queries)
         IN  Stored(IF q.call = "list_edges_by_region"
                      THEN Store(count, "edges", q.arg)
                    ELSE IF q.call = "get_node"
                      THEN StoreAll(count, "nodes", get_nodes({q.arg}))
                    ELSE IF q.call = "get_nodes"
                      THEN StoreAll(count, "nodes", get_nodes(q.arg))
                    ELSE count,
                    Tail(queries))

\* No repository rows, and a service that was never called.
NoDb == [regions |-> <<>>, nodes |-> <<>>, edges |-> <<>>, facilities |-> <<>>]

\* RoutingService.__init__ over the repositories of rows.
NewService(rows) ==
    /\ db = rows
    /\ _edges_cache = <<>>
    /\ _nodes_cache = <<>>
    /\ reach = NoReach
    /\ nearby = NoNearby
    /\ routing = NoRoute
    /\ fetched = <<>>
    /\ calls = 0
    /\ tasks = <<>>
    /\ stores = NoStores

Init ==
    /\ edges = <<>>
    /\ ctor = NoCtor
    /\ sp = NoCall
    /\ tour = NoTour
    /\ NewService(NoDb)

\* Edge(source, target, distance, ideal_speed, congestion, transport_modes)
\* followed, when it returns, by the caller's edges.append(edge).
NewEdge(source, target, distance, ideal_speed, congestion, transport_modes) ==
    LET made == Edge(source, target, distance, ideal_speed, congestion,
                     transport_modes)
    IN  /\ ~sp.called
        /\ ctor.called => ctor.ok  \* an earlier ValueError ended the caller
        /\ ctor' = [called |-> TRUE, source |-> source, target |-> target,
                    distance |-> distance, ideal_speed |-> ideal_speed,
                    congestion |-> congestion,
                    transport_modes |-> transport_modes,
                    ok |-> made.ok,
                    message |-> IF made.ok THEN "" ELSE made.message]
        /\ edges' = IF made.ok THEN Append(edges, made.edge) ELSE edges
        /\ sp' = NoCall
        /\ UNCHANGED <<tour, services>>

\* shortest_path(edges, start, goal, allowed_modes=..., strategy=...)
ShortestPath(start, goal, allowed_modes, strategy) ==
    /\ ~sp.called
    /\ \E run \in {shortest_path(edges, start, goal, allowed_modes, strategy)} :
           sp' = [called |-> TRUE, start |-> start, goal |-> goal,
                  allowed_modes |-> allowed_modes, strategy |-> strategy,
                  result |-> run.result, search |-> run.search]
    /\ UNCHANGED <<edges, ctor, tour, services>>

\* compute_tour(edges, start, targets, allowed_modes=..., strategy=...,
\* max_iterations=...)
ComputeTour(start, targets, allowed_modes, strategy, max_iterations) ==
    \E run \in {compute_tour(edges, start, targets, allowed_modes, strategy,
                              max_iterations)} :
        /\ ~tour.called
        /\ tour' = [called |-> TRUE, start |-> start, targets |-> targets,
                    allowed_modes |-> allowed_modes, strategy |-> strategy,
                    max_iterations |-> max_iterations,
                    result |-> run.result, pair_paths |-> run.pair_paths,
                    initial_route |-> run.initial_route,
                    two_opt |-> run.two_opt]
        /\ UNCHANGED <<edges, ctor, sp, services>>

\* RoutingService.compute_reachable_nodes(region_id=..., origin_node_id=...,
\* max_distance=..., strategy=..., transport_modes=...)
ComputeReachableNodes(region_id, origin_node_id, max_distance, strategy, transport_modes) ==
    \E run \in {compute_reachable_nodes(_edges_cache, _nodes_cache, region_id,
                                       origin_node_id, max_distance, strategy,
                                       transport_modes)} :
        /\ calls < MaxCalls
        /\ calls' = calls + 1
        /\ reach' = [called |-> TRUE, region_id |-> region_id,
                     origin_node_id |-> origin_node_id,
                     max_distance |-> max_distance, strategy |-> strategy,
                     transport_modes |-> transport_modes,
                     result |-> run.result,
                     queries |-> run.queries, edges |-> run.edges,
                     allowed_modes |-> run.allowed_modes,
                     search |-> run.search]
        /\ _edges_cache' = run.edges_cache
        /\ _nodes_cache' = run.nodes_cache
        /\ fetched' = Counted(fetched, run.queries)
        /\ stores' = Stored(stores, run.queries)
        /\ UNCHANGED tasks
        /\ nearby' = NoNearby
        /\ routing' = NoRoute
        /\ UNCHANGED <<db, algorithms>>

\* RoutingService.compute_route(region_id=..., start_node_id=...,
\* end_node_id=..., strategy=..., transport_modes=...)
ComputeRoute(region_id, start_node_id, end_node_id, strategy, transport_modes) ==
    \E run \in {compute_route(_edges_cache, _nodes_cache, region_id,
                             start_node_id, end_node_id, strategy,
                             transport_modes)} :
        /\ calls < MaxCalls
        /\ calls' = calls + 1
        /\ routing' = [called |-> TRUE, region_id |-> region_id,
                     start_node_id |-> start_node_id,
                     end_node_id |-> end_node_id, strategy |-> strategy,
                     transport_modes |-> transport_modes,
                     result |-> run.result,
                     queries |-> run.queries, edges |-> run.edges,
                     allowed_modes |-> run.allowed_modes,
                     search |-> run.search]
        /\ _edges_cache' = run.edges_cache
        /\ _nodes_cache' = run.nodes_cache
        /\ fetched' = Counted(fetched, run.queries)
        /\ stores' = Stored(stores, run.queries)
        /\ UNCHANGED tasks
        /\ reach' = NoReach
        /\ nearby' = NoNearby
        /\ UNCHANGED <<db, algorithms>>

\* FacilityService.find_nearby_facilities(region_id=..., origin_node_id=...,
\* radius_meters=..., limit=..., strategy=..., categories=...,
\* transport_modes=...) on the service's own RoutingService.
FindNearbyFacilities(region_id, origin_node_id, radius_meters, limit, strategy, categories, transport_modes) ==
    \E run \in {find_nearby_facilities(_edges_cache, _nodes_cache, region_id,
                                      origin_node_id, radius_meters, limit,
                                      strategy, categories, transport_modes)} :
        /\ calls < MaxCalls
        /\ calls' = calls + 1
        /\ nearby' = [called |-> TRUE, region_id |-> region_id,
                      origin_node_id |-> origin_node_id,
                      radius_meters |-> radius_meters, limit |-> limit,
                      strategy |-> strategy, categories |-> categories,
                      transport_modes |-> transport_modes,
                      result |-> run.result, queries |-> run.queries]
        /\ _edges_cache' = run.edges_cache
        /\ _nodes_cache' = run.nodes_cache
        /\ fetched' = Counted(fetched, run.queries)
        \* the facility service's own three queries store nothing; those of
        \* its routing service follow them
        /\ stores' = Stored(stores, SubSeq(run.queries, 4, Len(run.queries)))
        /\ UNCHANGED tasks
        /\ reach' = NoReach
        /\ routing' = NoRoute
        /\ UNCHANGED <<db, algorithms>>

\* asyncio.create_task(service.compute_route(...)), or the same of
\* compute_reachable_nodes: one more coroutine on the loop.
CreateTask(coroutine) ==
    /\ Len(tasks) < MaxTasks
    /\ tasks' = Append(tasks, coroutine)
    /\ UNCHANGED <<db, _edges_cache, _nodes_cache, reach, nearby, routing,
                   fetched, calls, stores, algorithms>>

\* The event loop resumes coroutine i, whose repository call has returned.
Resume(i) ==
    /\ i \in DOMAIN tasks
    /\ ~tasks[i].done
    /\ \E run \in {Resumed(tasks[i], _edges_cache, _nodes_cache, stores)} :
          /\ tasks' = [tasks EXCEPT ![i] = run.task]
          /\ _edges_cache' = run.edges_cache
          /\ _nodes_cache' = run.nodes_cache
          /\ stores' = run.stores
          /\ fetched' =
                Counted(fetched, <<Query(tasks[i].awaiting, tasks[i].region_id)>>)
    /\ UNCHANGED <<db, reach, nearby, routing, calls, algorithms>>

\* object.__setattr__(edges[i], field, value) on a constructed Edge: the
\* dataclass is frozen, and this is how __post_init__ itself writes to it;
\* nothing validates the edge again.
Forge(i, field, value) ==
    /\ ~sp.called
    /\ i \in DOMAIN edges
    /\ edges[i][field] # value
    /\ edges' = [edges EXCEPT ![i][field] = value]
    /\ UNCHANGED <<ctor, sp, tour, services>>

(***************************************************************************)
(* Inputs.                                                                 *)
(***************************************************************************)
\* Arguments of Edge(...), valid and invalid.
RawDistances == {-1, 0, 1}
RawSpeeds == {-10, 0, 14}
RawCongestions == {-5, 0, 5, 10}
RawModes == {<<>>, <<"">>, <<"walk">>, <<"Walk", "bike">>, <<"", "BIKE">>,
             <<"electric_cart", "">>}

\* The edge kinds the path searches run on: a short slow footpath (1 m at
\* 1.0 x 1.0) and a long fast walk-or-bike lane (3 m at 4.0 x 0.5): two
\* footpaths are shorter than one lane and take longer.
Footpath ==
    [distance |-> 1, ideal_speed |-> 10, congestion |-> 10,
     transport_modes |-> <<"walk">>]
Lane ==
    [distance |-> 3, ideal_speed |-> 40, congestion |-> 5,
     transport_modes |-> <<"walk", "bike">>]
EdgeKinds == {Footpath, Lane}

AllowedInputs ==
    {NoModes, ModeSeq(<<>>), ModeSeq(<<"walk">>), ModeStr("bike")}

\* (allowed_modes, strategy): every filter under both strategies, and one
\* string that is no WeightStrategy.
CallInputs ==
    (AllowedInputs \X WeightStrategy) \cup {<<NoModes, "fastest">>}

EdgeNext ==
    /\ Len(edges) < MaxCtorEdges
    /\ ctor.called => ctor.ok
    /\ \E source \in Nodes, target \in Nodes, distance \in RawDistances,
          ideal_speed \in RawSpeeds, congestion \in RawCongestions,
          transport_modes \in RawModes :
            NewEdge(source, target, distance, ideal_speed, congestion,
                    transport_modes)

PathNext ==
    \/ /\ Len(edges) < MaxEdges
       /\ ~sp.called
       /\ \E source \in Nodes, target \in Nodes, kind \in EdgeKinds :
            /\ source # target
            /\ NewEdge(source, target, kind.distance, kind.ideal_speed,
                       kind.congestion, kind.transport_modes)
    \/ /\ edges # <<>>
       /\ ~sp.called
       /\ \E start \in Nodes, goal \in Nodes, call \in CallInputs :
            ShortestPath(start, goal, call[1], call[2])

\* The maps the tours are planned on: four stops and six one-way
\* connections, each of them absent or laid as one of the kinds it admits.
Stops == {"1", "2", "3", "4"}
Connections ==
    <<<<"1", "2">>, <<"1", "3">>, <<"1", "4">>,
      <<"2", "3">>, <<"3", "1">>, <<"4", "1">>>>
Laid == [footpath |-> Footpath, lane |-> Lane]
Admits ==
    <<{"footpath", "lane"}, {"footpath", "lane"}, {"lane"},
      {"footpath", "lane"}, {"footpath"}, {"footpath"}>>

TourMap(pick) ==
    LET built == SelectSeq([k \in DOMAIN Connections |-> k],
                           LAMBDA k : pick[k] # "none")
    IN  [i \in DOMAIN built |->
            Edge(Connections[built[i]][1], Connections[built[i]][2],
                 Laid[pick[built[i]]].distance,
                 Laid[pick[built[i]]].ideal_speed,
                 Laid[pick[built[i]]].congestion,
                 Laid[pick[built[i]]].transport_modes).edge]

TourMaps ==
    {TourMap(pick) :
        pick \in {f \in [DOMAIN Connections -> {"none"} \cup DOMAIN Laid] :
                    \A k \in DOMAIN Connections :
                        f[k] \in {"none"} \cup Admits[k]}}

\* max_iterations: int = 50
DefaultIterations == 50

RECURSIVE ListsUpTo(_, _)
ListsUpTo(set, n) ==
    IF n = 0 THEN {<<>>}
    ELSE LET shorter == ListsUpTo(set, n - 1)
         IN  shorter \cup {Append(list, x) : list \in shorter, x \in set}

\* The target lists: every list of up to MaxTargets other stops, and two
\* lists that name the start itself.
TargetInputs ==
    ListsUpTo(Stops \ {"1"}, MaxTargets) \cup {<<"1">>, <<"2", "1">>}

\* (allowed_modes, strategy, max_iterations)
TourInputs ==
    {<<NoModes, DISTANCE, DefaultIterations>>,
     <<NoModes, TIME, DefaultIterations>>,
     <<ModeStr("bike"), TIME, DefaultIterations>>,
     <<NoModes, DISTANCE, 0>>,
     <<NoModes, DISTANCE, 1>>,
     <<NoModes, TIME, -1>>,
     <<NoModes, "fastest", DefaultIterations>>}

InitTour ==
    /\ edges \in TourMaps
    /\ ctor = NoCtor
    /\ sp = NoCall
    /\ tour = NoTour
    /\ NewService(NoDb)

TourNext ==
    /\ ~tour.called
    /\ \E targets \in TargetInputs, call \in TourInputs :
          ComputeTour("1", targets, call[1], call[2], call[3])

\* The rows of the services: region 1 of either type with nodes 1, 2, 3, a
\* restaurant on node 2 and a restroom on node 3, region 2 with node 4 and no
\* edge, and any of four roads of region 1.
Roads ==
    <<[region_id |-> 1, start_node_id |-> 1, end_node_id |-> 2,
       distance |-> 100, ideal_speed |-> 10, congestion |-> 10,
       transport_modes |-> <<WALK>>],
      [region_id |-> 1, start_node_id |-> 2, end_node_id |-> 3,
       distance |-> 120, ideal_speed |-> 10, congestion |-> 10,
       transport_modes |-> <<WALK>>],
      [region_id |-> 1, start_node_id |-> 1, end_node_id |-> 3,
       distance |-> 250, ideal_speed |-> 40, congestion |-> 5,
       transport_modes |-> <<WALK, BIKE>>],
      [region_id |-> 1, start_node_id |-> 3, end_node_id |-> 1,
       distance |-> 90, ideal_speed |-> 40, congestion |-> 10,
       transport_modes |-> <<BIKE>>]>>

Database(type, built) ==
    [regions |-> [r \in {1, 2} |-> [type |-> IF r = 1 THEN type ELSE CAMPUS]],
     nodes |-> [n \in {1, 2, 3, 4} |->
                  [id |-> n, region_id |-> IF n = 4 THEN 2 ELSE 1]],
     edges |-> LET kept == SelectSeq([k \in DOMAIN Roads |-> k],
                                    LAMBDA k : k \in built)
               IN  [i \in DOMAIN kept |-> Roads[kept[i]]],
     facilities |->
        <<[facility |-> [id |-> 101, region_id |-> 1, category |-> RESTAURANT],
           node |-> [id |-> 2, region_id |-> 1]],
          [facility |-> [id |-> 102, region_id |-> 1, category |-> RESTROOM],
           node |-> [id |-> 3, region_id |-> 1]]>>]

Databases ==
    {Database(type, built) : type \in RegionType, built \in SUBSET DOMAIN Roads}

\* radius_meters: float | None = 500.0 and limit: int = 10
DefaultRadius == 500
DefaultLimit == 10

\* The budgets of the calls: none, or 150 m.
Budgets == {NoNumber, SomeNumber(150)}

\* The arguments of compute_reachable_nodes: the requests for region 1 from
\* each of its nodes, then requests with other mode lists, an unknown
\* region, an unknown node, a node of another region, a region without
\* edges and a string that is no strategy.
ReachInputs ==
    [region_id : {1}, origin_node_id : {1, 2, 3}, max_distance : Budgets,
     strategy : WeightStrategy,
     transport_modes : {NoModes, ModeSeq(<<"walk">>)}]
    \cup [region_id : {1}, origin_node_id : {1}, max_distance : {NoNumber},
          strategy : {DISTANCE},
          transport_modes : {ModeSeq(<<>>), ModeSeq(<<"BIKE">>),
                             ModeSeq(<<"bike", "walk">>)}]
    \cup [region_id : {9}, origin_node_id : {1}, max_distance : {NoNumber},
          strategy : {DISTANCE}, transport_modes : {NoModes}]
    \cup [region_id : {1}, origin_node_id : {4, 9}, max_distance : {NoNumber},
          strategy : {DISTANCE}, transport_modes : {NoModes}]
    \cup [region_id : {2}, origin_node_id : {4}, max_distance : {NoNumber},
          strategy : {DISTANCE}, transport_modes : {NoModes}]
    \cup [region_id : {1}, origin_node_id : {1}, max_distance : {NoNumber},
          strategy : {"fastest"}, transport_modes : {NoModes}]

\* The arguments of find_nearby_facilities, chosen alike.
NearbyInputs ==
    [region_id : {1}, origin_node_id : {1, 3},
     radius_meters : Budgets \cup {SomeNumber(DefaultRadius)},
     limit : {DefaultLimit}, strategy : WeightStrategy,
     categories : {NoList}, transport_modes : {NoModes}]
    \cup [region_id : {1}, origin_node_id : {1},
          radius_meters : {SomeNumber(DefaultRadius)},
          limit : {0, 1}, strategy : {DISTANCE},
          categories : {NoList}, transport_modes : {NoModes}]
    \cup [region_id : {1}, origin_node_id : {1},
          radius_meters : {SomeNumber(DefaultRadius)},
          limit : {DefaultLimit}, strategy : {DISTANCE},
          categories : {SomeList(<<RESTROOM>>), SomeList(<<"museum">>)},
          transport_modes : {NoModes}]
    \cup [region_id : {1}, origin_node_id : {1},
          radius_meters : {SomeNumber(DefaultRadius)},
          limit : {DefaultLimit}, strategy : {DISTANCE, "fastest"},
          categories : {NoList}, transport_modes : {ModeSeq(<<"bike">>)}]
    \cup [region_id : {1, 2, 9}, origin_node_id : {4, 9},
          radius_meters : {SomeNumber(DefaultRadius)},
          limit : {DefaultLimit}, strategy : {DISTANCE},
          categories : {NoList}, transport_modes : {NoModes}]

\* The first three roads with a fifth node of region 1 behind node 3.
Spur ==
    [region_id |-> 1, start_node_id |-> 3, end_node_id |-> 5,
     distance |-> 50, ideal_speed |-> 10, congestion |-> 10,
     transport_modes |-> <<WALK>>]

SpurDatabase ==
    [Database(SCENIC, {1, 2, 3}) EXCEPT
        !.nodes = [n \in {1, 2, 3, 4, 5} |->
                      [id |-> n, region_id |-> IF n = 4 THEN 2 ELSE 1]],
        !.edges = Append(@, Spur)]

InitReach ==
    /\ edges = <<>>
    /\ ctor = NoCtor
    /\ sp = NoCall
    /\ tour = NoTour
    /\ \E rows \in Databases \cup {SpurDatabase} : NewService(rows)

ReachNext ==
    \/ /\ calls < MaxCalls
       /\ \E in \in ReachInputs :
            ComputeReachableNodes(in.region_id, in.origin_node_id,
                                  in.max_distance, in.strategy,
                                  in.transport_modes)
    \/ /\ calls < MaxCalls
       /\ \E in \in NearbyInputs :
            FindNearbyFacilities(in.region_id, in.origin_node_id,
                                 in.radius_meters, in.limit, in.strategy,
                                 in.categories, in.transport_modes)

\* region.type of a row whose type column is NULL.
NoType == "None"

\* A row that Edge.__post_init__ refuses: its distance is negative.
Sunken ==
    [region_id |-> 1, start_node_id |-> 1, end_node_id |-> 3,
     distance |-> -50, ideal_speed |-> 10, congestion |-> 10,
     transport_modes |-> <<WALK>>]

\* The road sets of the route requests.
Built == {{}, {1}, {1, 2}, {1, 2, 3}, {3, 4}, {1, 2, 3, 4}}

\* The rows of the route requests: region 1 of either type or of none, with
\* one of the road sets; then one database that holds the refused row next
\* to the walk roads, and one whose node 2 has no row.
RouteDatabases ==
    {Database(type, built) : type \in RegionType \cup {NoType}, built \in Built}
    \cup {[Database(SCENIC, {1, 2}) EXCEPT !.edges = Append(@, Sunken)]}
    \cup {[Database(SCENIC, {1, 2}) EXCEPT
              !.nodes = [n \in {1, 3, 4} |-> @[n]]]}

\* The arguments of compute_route: the requests between the nodes of region
\* 1 under both strategies, then requests with mode lists, an unknown
\* region, unknown nodes, nodes of another region, a region without edges
\* and a string that is no strategy.
RouteInputs ==
    [region_id : {1}, start_node_id : {1, 2, 3}, end_node_id : {1, 2, 3},
     strategy : WeightStrategy, transport_modes : {NoModes}]
    \cup [region_id : {1}, start_node_id : {1}, end_node_id : {3},
          strategy : {TIME},
          transport_modes : {ModeSeq(<<>>), ModeSeq(<<"BIKE">>),
                             ModeSeq(<<"bike", "walk">>),
                             ModeSeq(<<"electric_cart">>)}]
    \cup [region_id : {9}, start_node_id : {1}, end_node_id : {3},
          strategy : {TIME}, transport_modes : {NoModes}]
    \cup [region_id : {1}, start_node_id : {1, 4, 9}, end_node_id : {1, 4, 9},
          strategy : {TIME}, transport_modes : {NoModes}]
    \cup [region_id : {2}, start_node_id : {4}, end_node_id : {4},
          strategy : {TIME}, transport_modes : {NoModes}]
    \cup [region_id : {1}, start_node_id : {1}, end_node_id : {1, 3},
          strategy : {"fastest"}, transport_modes : {NoModes}]

\* The arguments of compute_reachable_nodes that go with them.
RouteReachInputs ==
    [region_id : {1}, origin_node_id : {1, 4, 9}, max_distance : {NoNumber},
     strategy : {DISTANCE},
     transport_modes : {NoModes, ModeSeq(<<"electric_cart">>)}]
    \cup [region_id : {2, 9}, origin_node_id : {4}, max_distance : {NoNumber},
          strategy : {DISTANCE}, transport_modes : {NoModes}]

\* The edge rows are replaced behind the service's back, as the test of the
\* broken route does with graph_repo._edges.
Rewrite(built) ==
    /\ db.edges # Database(SCENIC, built).edges
    /\ db' = [db EXCEPT !.edges = Database(SCENIC, built).edges]
    /\ UNCHANGED <<_edges_cache, _nodes_cache, reach, nearby, routing,
                   fetched, calls, tasks, stores, algorithms>>

InitRoute ==
    /\ edges = <<>>
    /\ ctor = NoCtor
    /\ sp = NoCall
    /\ tour = NoTour
    /\ \E rows \in RouteDatabases : NewService(rows)

RouteNext ==
    \/ /\ calls < MaxCalls
       /\ \E in \in RouteInputs :
            ComputeRoute(in.region_id, in.start_node_id, in.end_node_id,
                         in.strategy, in.transport_modes)
    \/ /\ calls < MaxCalls
       /\ \E in \in RouteReachInputs :
            ComputeReachableNodes(in.region_id, in.origin_node_id,
                                  in.max_distance, in.strategy,
                                  in.transport_modes)
    \/ /\ 0 < calls /\ calls < MaxCalls
       /\ \E built \in {{}, {1, 2}} : Rewrite(built)

\* The rows of the concurrent requests: region 1 with no road, with the
\* walk roads, or with all four.
AsyncDatabases == {Database(SCENIC, built) : built \in {{}, {1, 2}, {1, 2, 3, 4}}}

\* The requests that run concurrently.
AsyncInputs ==
    {Coroutine("compute_route", 1, start_node_id, 3, NoNumber, TIME, NoModes) :
        start_node_id \in {1, 2, 9}}
    \cup {Coroutine("compute_route", region_id, 1, 2, NoNumber, DISTANCE,
                    ModeSeq(<<"bike">>)) : region_id \in {1, 9}}
    \cup {Coroutine("compute_reachable_nodes", 1, origin_node_id, 0, NoNumber,
                    DISTANCE, NoModes) : origin_node_id \in {1, 4}}

InitAsync ==
    /\ edges = <<>>
    /\ ctor = NoCtor
    /\ sp = NoCall
    /\ tour = NoTour
    /\ \E rows \in AsyncDatabases : NewService(rows)

AsyncNext ==
    \/ \E coroutine \in AsyncInputs : CreateTask(coroutine)
    \/ \E i \in 1..MaxTasks : Resume(i)
    \/ /\ tasks # <<>>
       /\ \E built \in {{}, {1, 2}} : Rewrite(built)

\* Searches over edges of which some were tampered with after their
\* construction: a distance or a speed made negative.
ForgedNext ==
    \/ /\ Len(edges) < MaxForged
       /\ ~sp.called
       /\ \E source \in Nodes, target \in Nodes, kind \in EdgeKinds :
            /\ source # target
            /\ NewEdge(source, target, kind.distance, kind.ideal_speed,
                       kind.congestion, kind.transport_modes)
    \/ \E i \in 1..MaxForged :
            \/ Forge(i, "distance", -2)
            \/ Forge(i, "ideal_speed", -10)
    \/ /\ edges # <<>>
       /\ ~sp.called
       /\ \E start \in Nodes, goal \in Nodes,
             call \in {<<NoModes, TIME>>, <<ModeStr("bike"), DISTANCE>>} :
            ShortestPath(start, goal, call[1], call[2])

\* tests/algorithms/test_shortest_path.py: the module's EDGES.
Places == {"A", "B", "C", "D"}
Constructed(args) ==
    [i \in DOMAIN args |->
        Edge(args[i][1], args[i][2], args[i][3], args[i][4], args[i][5],
             args[i][6]).edge]
EDGES ==
    Constructed(<<<<"A", "B", 100, 14, 10, <<"walk", "bike">>>>,
             <<"B", "C", 120, 14, 10, <<"walk">>>>,
             <<"C", "D", 80, 14, 10, <<"walk", "electric_cart">>>>,
             <<"B", "D", 200, 40, 5, <<"bike", "electric_cart">>>>,
             <<"A", "D", 500, 14, 10, <<"walk">>>>>>)

\* The same places with every edge but B -> D open to walkers only.
WalkOnlyEdges ==
    Constructed(<<<<"A", "B", 100, 14, 10, <<"walk">>>>,
             <<"B", "C", 120, 14, 10, <<"walk">>>>,
             <<"C", "D", 80, 14, 10, <<"walk">>>>,
             <<"A", "D", 500, 14, 10, <<"walk">>>>,
             <<"B", "D", 200, 40, 5, <<"bike", "electric_cart">>>>>>)

\* The mode filters of the tests.
WalkOnly == ModeSeq(<<"walk">>)
Wheels == ModeSeq(<<"bike", "electric_cart">>)

InitScenario ==
    /\ edges \in {EDGES, WalkOnlyEdges}
    /\ ctor = NoCtor
    /\ sp = NoCall
    /\ tour = NoTour
    /\ NewService(NoDb)

ScenarioNext ==
    \E start \in Places, goal \in Places,
       allowed_modes \in {NoModes, WalkOnly, Wheels},
       strategy \in WeightStrategy :
        ShortestPath(start, goal, allowed_modes, strategy)

SpecEdge == Init /\ [][EdgeNext]_vars
SpecScenario == InitScenario /\ [][ScenarioNext]_vars
SpecForged == Init /\ [][ForgedNext]_vars
SpecAsync == InitAsync /\ [][AsyncNext]_vars
SpecRoute == InitRoute /\ [][RouteNext]_vars
SpecReach == InitReach /\ [][ReachNext]_vars
SpecTour == InitTour /\ [][TourNext]_vars
SpecPath == Init /\ [][PathNext]_vars
Spec == SpecPath

(***************************************************************************)
(* What the claims speak of, stated without the solver.                    *)
(***************************************************************************)
LowerTags == {"walk", "bike", "electric_cart"}

\* No filter is given: allowed_modes is None or names no mode at all.
ClaimNoFilter(allowed_modes) ==
    \/ allowed_modes.kind = "None"
    \/ \A i \in DOMAIN allowed_modes.tags : allowed_modes.tags[i] = ""

ClaimAllowedSet(allowed_modes) ==
    {allowed_modes.tags[i] : i \in DOMAIN allowed_modes.tags} \ {""}

\* The edge has at least one mode in the allowed set.
ClaimVisible(e, allowed_modes) ==
    \/ ClaimNoFilter(allowed_modes)
    \/ Range(e.transport_modes) \cap ClaimAllowedSet(allowed_modes) # {}

\* The first mode, in the edge's declared order, that is allowed.
ClaimMode(e, allowed_modes) ==
    IF ClaimNoFilter(allowed_modes) THEN e.transport_modes[1]
    ELSE LET ok == {i \in DOMAIN e.transport_modes :
                       e.transport_modes[i] \in ClaimAllowedSet(allowed_modes)}
         IN  e.transport_modes[CHOOSE i \in ok : \A j \in ok : i <= j]

ClaimWeight(e, strategy) ==
    IF strategy = DISTANCE THEN e.distance
    ELSE (TimeScale * Tenth * Tenth * e.distance) \div (e.ideal_speed * e.congestion)

MinOf(set) == CHOOSE x \in set : \A y \in set : x <= y

\* One more edge: the costs of the walks that extend a walk costed in w by
\* one visible edge, together with those of w.
ExtendWalks(w, edge_list, allowed_modes, strategy) ==
    [n \in Nodes |->
        w[n] \cup UNION {{c + ClaimWeight(edge_list[i], strategy) :
                             c \in w[edge_list[i].source]} :
                         i \in {j \in DOMAIN edge_list :
                                  /\ edge_list[j].target = n
                                  /\ ClaimVisible(edge_list[j], allowed_modes)}}]

\* For each node, the costs of the directed walks of at most k visible edges
\* that lead from start to it.
RECURSIVE WalkCosts(_, _, _, _, _)
WalkCosts(edge_list, start, allowed_modes, strategy, k) ==
    IF k = 0 THEN [n \in Nodes |-> IF n = start THEN {0} ELSE {}]
    ELSE ExtendWalks(WalkCosts(edge_list, start, allowed_modes, strategy, k - 1),
                     edge_list, allowed_modes, strategy)

\* Every walk that uses each edge of the list at most once is among those of
\* at most Len(edge_list) edges, and with no negative weight a least-cost
\* walk repeats no edge.
PathCosts(edge_list, start, goal, allowed_modes, strategy) ==
    WalkCosts(edge_list, start, allowed_modes, strategy, Len(edge_list))[goal]

\* The nodes reachable from the set `from` over visible edges.
RECURSIVE ReachableFrom(_, _, _)
ReachableFrom(edge_list, from, allowed_modes) ==
    LET more == from \cup {edge_list[i].target :
                             i \in {j \in DOMAIN edge_list :
                                      /\ edge_list[j].source \in from
                                      /\ ClaimVisible(edge_list[j], allowed_modes)}}
    IN  IF more = from THEN from ELSE ReachableFrom(edge_list, more, allowed_modes)

StrategyCost(result, strategy) ==
    IF strategy = DISTANCE THEN result.total_distance ELSE result.total_time

SegmentDistances(result) == [i \in DOMAIN result.segments |-> result.segments[i].distance]
SegmentTimes(result) == [i \in DOMAIN result.segments |-> result.segments[i].time]

Returned == sp.called /\ sp.result.ok
Searched == sp.called /\ sp.start # sp.goal /\ sp.strategy \in WeightStrategy

(***************************************************************************)
(* C1. Whenever shortest_path returns a PathResult for start # goal, its   *)
(* cost under the strategy (total_distance for DISTANCE, total_time for    *)
(* TIME) is the least cost of a directed start-to-goal path over the edges *)
(* that have a mode in the allowed set (all the edges without a filter).   *)
(***************************************************************************)
C1_ReturnsLeastCost ==
    (Returned /\ sp.start # sp.goal) =>
        LET costs == PathCosts(edges, sp.start, sp.goal, sp.allowed_modes, sp.strategy)
        IN  /\ costs # {}
            /\ StrategyCost(sp.result, sp.strategy) = MinOf(costs)

\* A two-hop route was returned although a visible direct edge exists.
C1_Witness ==
    /\ Returned
    /\ Len(sp.result.segments) = 2
    /\ \E i \in DOMAIN edges :
          /\ edges[i].source = sp.start
          /\ edges[i].target = sp.goal
          /\ ClaimVisible(edges[i], sp.allowed_modes)
          /\ ClaimWeight(edges[i], sp.strategy) > StrategyCost(sp.result, sp.strategy)

(***************************************************************************)
(* C2. Whenever shortest_path returns, under either strategy,              *)
(* total_distance is the sum of the segments' distances and total_time the *)
(* sum of the segments' times.                                             *)
(***************************************************************************)
C2_TotalsAreSegmentSums ==
    Returned =>
        /\ sp.result.total_distance = SumSeq(SegmentDistances(sp.result))
        /\ sp.result.total_time = SumSeq(SegmentTimes(sp.result))

\* A route over a footpath and a lane, found under the DISTANCE strategy.
C2_Witness ==
    /\ Returned
    /\ sp.strategy = DISTANCE
    /\ Len(sp.result.segments) = 2
    /\ sp.result.segments[1].time # sp.result.segments[2].time
    /\ sp.result.total_time > 0

(***************************************************************************)
(* C3. For start # goal, shortest_path fails with the no-path error        *)
(* exactly when goal is not reachable from start over the edges visible    *)
(* under the filter; a result it returns has at least one segment and a    *)
(* node sequence from start to goal.                                       *)
(***************************************************************************)
C3_NoPathIffUnreachable ==
    Searched =>
        /\ (~sp.result.ok /\ sp.result.error = "ValueError" /\ sp.result.message = NoPath)
             <=> sp.goal \notin ReachableFrom(edges, {sp.start}, sp.allowed_modes)
        /\ sp.result.ok \/ sp.result.message = NoPath
        /\ sp.result.ok =>
             /\ sp.result.segments # <<>>
             /\ sp.result.nodes[1] = sp.start
             /\ sp.result.nodes[Len(sp.result.nodes)] = sp.goal

\* The no-path error although the goal is reachable when the filter is
\* ignored.
C3_Witness ==
    /\ Searched
    /\ ~sp.result.ok
    /\ sp.result.message = NoPath
    /\ sp.goal \in ReachableFrom(edges, {sp.start}, NoModes)

(***************************************************************************)
(* C4. Every segment of a returned PathResult carries the first mode, in   *)
(* the declared order of the edge it traverses, that belongs to the        *)
(* allowed set (the first declared mode without a filter), and no edge     *)
(* without an allowed mode is traversed or relaxed.                        *)
(***************************************************************************)
C4_FirstAllowedMode ==
    sp.called =>
        /\ \A n \in DOMAIN sp.search.previous :
              LET p == sp.search.previous[n]
              IN  /\ \E i \in DOMAIN edges : edges[i] = p.edge
                  /\ ClaimVisible(p.edge, sp.allowed_modes)
                  /\ p.mode = ClaimMode(p.edge, sp.allowed_modes)
        /\ sp.result.ok =>
              \A k \in DOMAIN sp.result.segments :
                  LET seg == sp.result.segments[k]
                  IN  \E i \in DOMAIN edges :
                          /\ edges[i].source = seg.source
                          /\ edges[i].target = seg.target
                          /\ edges[i].distance = seg.distance
                          /\ ClaimVisible(edges[i], sp.allowed_modes)
                          /\ seg.transport_mode = ClaimMode(edges[i], sp.allowed_modes)

\* A segment whose mode is not the first one its edge declares.
C4_Witness ==
    /\ Returned
    /\ \E k \in DOMAIN sp.result.segments :
          \A i \in DOMAIN edges :
              (edges[i].source = sp.result.segments[k].source
                  /\ edges[i].target = sp.result.segments[k].target)
              => edges[i].transport_modes[1] # sp.result.segments[k].transport_mode

(***************************************************************************)
(* C5. shortest_path with start = goal returns the path [start] with no    *)
(* segment and zero totals, whatever the edges, the filter and the         *)
(* strategy argument, and runs no search step.                             *)
(***************************************************************************)
C5_TrivialWhenStartIsGoal ==
    (sp.called /\ sp.start = sp.goal) =>
        /\ sp.result = PathResult(<<sp.start>>, <<>>, 0, 0)
        /\ sp.search.pops = 0
        /\ sp.search.visited = {}
        /\ sp.search.order = 0

\* start = goal with a strategy string that is no WeightStrategy, on a graph
\* with an edge leaving start.
C5_Witness ==
    /\ sp.called
    /\ sp.start = sp.goal
    /\ sp.strategy \notin WeightStrategy
    /\ \E i \in DOMAIN edges : edges[i].source = sp.start

(***************************************************************************)
(* C6. Constructing an Edge fails whenever distance < 0, ideal_speed <= 0, *)
(* congestion <= 0 or no mode is left once the empty tags are dropped, and *)
(* succeeds otherwise; every constructed Edge has lower-cased, non-empty   *)
(* modes and neither a negative distance nor a negative travel time.       *)
(***************************************************************************)
C6_EdgeValidation ==
    /\ ctor.called =>
          (ctor.ok <=> ~ \/ ctor.distance < 0
                         \/ ctor.ideal_speed <= 0
                         \/ ctor.congestion <= 0
                         \/ \A i \in DOMAIN ctor.transport_modes :
                               ctor.transport_modes[i] = "")
    /\ (ctor.called /\ ~ctor.ok) => ctor.message # ""
    /\ \A i \in DOMAIN edges :
          /\ edges[i].distance >= 0
          /\ edges[i].ideal_speed > 0
          /\ edges[i].congestion > 0
          /\ edges[i].transport_modes # <<>>
          /\ Range(edges[i].transport_modes) \subseteq LowerTags
          /\ travel_time(edges[i]) >= 0

\* A rejected construction whose only fault is a tag list of empty tags, and
\* an accepted one whose tags were lower-cased.
C6_WitnessRejected ==
    /\ ctor.called
    /\ ~ctor.ok
    /\ ctor.transport_modes = <<"">>
    /\ ctor.distance >= 0 /\ ctor.ideal_speed > 0 /\ ctor.congestion > 0

(***************************************************************************)
(* What the tour claims speak of.                                          *)
(***************************************************************************)
TourReturned == tour.called /\ tour.result.ok

LegDistances(result) ==
    [k \in DOMAIN result.legs |-> result.legs[k].path.total_distance]
LegTimes(result) ==
    [k \in DOMAIN result.legs |-> result.legs[k].path.total_time]

\* How often the stop occurs in the route.
Visits(route, stop) == Cardinality({k \in DOMAIN route : route[k] = stop})

\* The place of a stop in the start-then-targets order: 0 for the start,
\* otherwise where the stop first occurs among the targets.
ClaimPlace(stop) ==
    IF stop = tour.start THEN 0
    ELSE MinOf({i \in DOMAIN tour.targets : tour.targets[i] = stop})

\* The ordered pairs of distinct stops of the call with no path from the
\* first to the second over the edges visible under the filter.
ClaimInfeasible ==
    LET stops == {tour.start} \cup Range(tour.targets)
    IN  {p \in stops \X stops :
           /\ p[1] # p[2]
           /\ p[2] \notin ReachableFrom(edges, {p[1]}, tour.allowed_modes)}

\* Pair p comes no later than pair q in the nesting order.
ClaimNoLater(p, q) ==
    \/ ClaimPlace(p[1]) < ClaimPlace(q[1])
    \/ ClaimPlace(p[1]) = ClaimPlace(q[1]) /\ ClaimPlace(p[2]) <= ClaimPlace(q[2])

(***************************************************************************)
(* C7. Whenever compute_tour returns for a non-empty target list, the      *)
(* route starts and ends at start, holds every distinct target exactly     *)
(* once and nothing else in between (duplicates of the input collapsed),   *)
(* and total_distance and total_time are the sums of the legs' path        *)
(* totals.                                                                 *)
(***************************************************************************)
C7_TourCoversTargets ==
    (TourReturned /\ tour.targets # <<>>) =>
        LET route == tour.result.route
            n == Len(route)
        IN  /\ n = Cardinality(Range(tour.targets)) + 2
            /\ route[1] = tour.start
            /\ route[n] = tour.start
            /\ \A t \in Range(tour.targets) : Visits(route, t) = 1
            /\ tour.result.total_distance = SumSeq(LegDistances(tour.result))
            /\ tour.result.total_time = SumSeq(LegTimes(tour.result))

\* A tour of three targets was returned after 2-opt had replaced the
\* nearest-neighbour route, over legs of different lengths.
C7_Witness ==
    /\ TourReturned
    /\ Cardinality(Range(tour.targets)) = 3
    /\ tour.result.route #
          _nearest_neighbour_route(
              tour.start, tour.targets,
              _precompute_pair_paths(edges, <<tour.start>> \o tour.targets,
                                     tour.allowed_modes,
                                     tour.strategy).pair_paths,
              tour.strategy).route
    /\ Len(tour.result.legs) = 4
    /\ \E k \in 1..4 : tour.result.legs[k].path.total_distance #
                          tour.result.legs[1].path.total_distance

(***************************************************************************)
(* C8. Under a valid strategy, if some ordered pair of distinct stops      *)
(* among the start and the targets has no path under the allowed modes,    *)
(* compute_tour fails with TourComputationError and the message names the  *)
(* first such pair in the start-then-targets nesting order; a tour that is *)
(* returned holds every requested stop.                                    *)
(***************************************************************************)
C8_InfeasiblePairFails ==
    (tour.called /\ tour.strategy \in WeightStrategy) =>
        /\ ClaimInfeasible # {} =>
              /\ ~tour.result.ok
              /\ tour.result.error = "TourComputationError"
              /\ <<tour.result.origin, tour.result.destination>> \in ClaimInfeasible
              /\ \A q \in ClaimInfeasible :
                    ClaimNoLater(<<tour.result.origin, tour.result.destination>>, q)
        /\ tour.result.ok =>
              Range(tour.targets) \subseteq Range(tour.result.route)

\* The tour failed on a pair whose origin is a target, while a pair with a
\* later origin is infeasible too.
C8_Witness ==
    /\ tour.called
    /\ tour.result.error = "TourComputationError"
    /\ tour.result.origin # tour.start
    /\ \E q \in ClaimInfeasible :
          ClaimPlace(q[1]) > ClaimPlace(tour.result.origin)

(***************************************************************************)
(* What the service claims speak of.                                       *)
(***************************************************************************)
ReachReturned == reach.called /\ reach.result.ok
NearbyReturned == nearby.called /\ nearby.result.ok

\* What the single-pair solver answers for the origin of the last
\* reachability call and the node, over the same rows, the modes that call
\* resolved and its strategy.
ClaimSolved(node_id) ==
    shortest_path(_to_algorithm_edges(list_edges_by_region(reach.region_id)),
                  str(reach.origin_node_id), str(node_id),
                  ModeSeq(reach.allowed_modes), reach.strategy).result

(***************************************************************************)
(* C9. A mapping returned by compute_reachable_nodes under a max_distance  *)
(* budget holds no node whose accumulated distance exceeds the budget, and *)
(* find_nearby_facilities returns no facility whose route distance exceeds *)
(* radius_meters.                                                          *)
(***************************************************************************)
C9_NothingBeyondBudget ==
    /\ (ReachReturned /\ ~reach.max_distance.is_none) =>
          \A k \in DOMAIN reach.result.visited :
              reach.result.visited[k].distance <= reach.max_distance.value
    /\ (NearbyReturned /\ ~nearby.radius_meters.is_none) =>
          \A k \in DOMAIN nearby.result.results :
              nearby.result.results[k].distance <= nearby.radius_meters.value

(***************************************************************************)
(* C10. For every node of a mapping returned by compute_reachable_nodes,   *)
(* shortest_path from the origin to that node over the same edges, allowed *)
(* modes and strategy succeeds and yields the same distance and the same   *)
(* time.                                                                   *)
(***************************************************************************)
C10_AgreesWithShortestPath ==
    ReachReturned =>
        \A k \in DOMAIN reach.result.visited :
            LET entry == reach.result.visited[k]
                solved == ClaimSolved(entry.node_id)
            IN  /\ solved.ok
                /\ solved.total_distance = entry.distance
                /\ solved.total_time = entry.time

(***************************************************************************)
(* What the claims about the routing service speak of.                     *)
(***************************************************************************)
RouteCalled == routing.called
RouteReturned == routing.called /\ routing.result.ok

\* The default modes of a region type, as the claims list them.
ClaimDefault(type) ==
    CASE type = "campus" -> {"walk", "bike"}
      [] type = "scenic" -> {"walk", "electric_cart"}
      [] OTHER -> {"walk"}

\* The modes a caller asked for, in lower case.
ClaimRequested(transport_modes) ==
    {lower(transport_modes.tags[i]) : i \in DOMAIN transport_modes.tags}

\* The rows are ones the solver's edge type accepts.
ClaimWellFormed(rows) ==
    \A i \in DOMAIN rows :
        /\ rows[i].distance >= 0
        /\ rows[i].ideal_speed > 0
        /\ rows[i].congestion > 0
        /\ rows[i].transport_modes # <<>>

\* What the claim says of one call that came to resolve the modes: the
\* modes it was given, the set it used, how it ended and whether a search ran.
ClaimResolution(type, transport_modes, allowed_modes, result, searched) ==
    LET default == ClaimDefault(type)
        requested == ClaimRequested(transport_modes)
    IN  IF requested = {}
          THEN Range(allowed_modes) = default
        ELSE IF requested \cap default = {}
          THEN /\ ~result.ok
               /\ result.error = "NodeValidationError"
               /\ ~searched
        ELSE /\ Range(allowed_modes) = requested \cap default
             /\ Range(allowed_modes) # {}
             /\ Range(allowed_modes) \subseteq default

(***************************************************************************)
(* C11. In a compute_route or compute_reachable_nodes call that comes to   *)
(* resolve the transport modes, the allowed modes are a non-empty subset   *)
(* of the default set of the region's type: the default set itself when    *)
(* the caller names no mode, the requested modes that are in the default   *)
(* set otherwise; when none of the requested modes is in it the call ends  *)
(* in NodeValidationError and no search is run.  A returned RoutePlan      *)
(* carries the allowed modes.                                              *)
(***************************************************************************)
C11_ModesWithinRegionDefault ==
    /\ (/\ routing.called
        /\ routing.edges # <<>>
        /\ ClaimWellFormed(routing.edges)) =>
           /\ ClaimResolution(db.regions[routing.region_id].type,
                              routing.transport_modes, routing.allowed_modes,
                              routing.result, routing.search # NoSearch)
           /\ routing.result.ok =>
                 routing.result.allowed_modes = routing.allowed_modes
    /\ (reach.called /\ reach.edges # <<>>) =>
           ClaimResolution(db.regions[reach.region_id].type,
                           reach.transport_modes, reach.allowed_modes,
                           reach.result, reach.search # NoReachSearch)

\* A route was planned for a caller who asked for bike and walk in a region
\* whose default set has only one of the two.
C11_Witness ==
    /\ RouteReturned
    /\ routing.result.segments # <<>>
    /\ ClaimRequested(routing.transport_modes) = {"bike", "walk"}
    /\ Range(routing.result.allowed_modes) = {"walk"}

\* The repository calls of a call, by name.
ClaimAsked(queries) == [i \in DOMAIN queries |-> queries[i].call]

\* A node of the request has no row or a row of another region.
ClaimStray(node_id, region_id) ==
    node_id \notin DOMAIN db.nodes \/ db.nodes[node_id].region_id # region_id

\* What the claim says of one call: the region it named, the nodes it named,
\* how it ended, what it asked the repositories and whether a search ran.
ClaimLookup(region_id, node_ids, result, queries, searched) ==
    IF region_id \notin DOMAIN db.regions
      THEN /\ ~result.ok
           /\ result.error = "RegionNotFoundError"
           /\ ClaimAsked(queries) = <<"get_region">>
           /\ ~searched
    ELSE (\E n \in node_ids : ClaimStray(n, region_id)) =>
           /\ ~result.ok
           /\ result.error = "NodeValidationError"
           /\ ClaimAsked(queries)[1] = "get_region"
           /\ Range(ClaimAsked(queries)) \subseteq {"get_region", "get_node"}
           /\ ~searched

(***************************************************************************)
(* C12. compute_route and compute_reachable_nodes answer an unknown region *)
(* with RegionNotFoundError, whatever the nodes are, and a known region    *)
(* with an endpoint or origin that is missing or of another region with    *)
(* NodeValidationError.  The region is looked up first; in both cases the  *)
(* call ends without having asked for the region's edge list and without   *)
(* a step of the solver.                                                   *)
(***************************************************************************)
C12_LookupErrorsComeFirst ==
    /\ routing.called =>
           ClaimLookup(routing.region_id,
                       {routing.start_node_id, routing.end_node_id},
                       routing.result, routing.queries,
                       routing.search # NoSearch)
    /\ reach.called =>
           ClaimLookup(reach.region_id, {reach.origin_node_id}, reach.result,
                       reach.queries, reach.search # NoReachSearch)

\* A reachability request from a node of another region was refused in a
\* region that has roads, on a service that had already loaded them.
C12_Witness ==
    /\ reach.called
    /\ reach.region_id \in DOMAIN _edges_cache
    /\ _edges_cache[reach.region_id] # <<>>
    /\ reach.origin_node_id \in DOMAIN db.nodes
    /\ ClaimStray(reach.origin_node_id, reach.region_id)
    /\ reach.result.error = "NodeValidationError"

(***************************************************************************)
(* C13. compute_reachable_nodes, asked about a known region from an origin *)
(* that has no node row or whose row belongs to another region, raises     *)
(* NodeValidationError without starting the search; it returns no mapping, *)
(* not even the empty one it returns for a region without edges.           *)
(* find_nearby_facilities refuses such an origin in the same way.          *)
(***************************************************************************)
C13_StrayOriginIsRefused ==
    /\ (/\ reach.called
        /\ reach.region_id \in DOMAIN db.regions
        /\ ClaimStray(reach.origin_node_id, reach.region_id)) =>
           /\ ~reach.result.ok
           /\ reach.result.error = "NodeValidationError"
           /\ reach.search = NoReachSearch
    /\ (/\ nearby.called
        /\ nearby.region_id \in DOMAIN db.regions
        /\ ClaimStray(nearby.origin_node_id, nearby.region_id)) =>
           /\ ~nearby.result.ok
           /\ nearby.result.error = "NodeValidationError"

\* An origin of another region was refused in a region that has no edge,
\* where a valid origin is answered with the empty mapping.
C13_Witness ==
    /\ reach.called
    /\ reach.region_id \in DOMAIN db.regions
    /\ list_edges_by_region(reach.region_id) = <<>>
    /\ reach.origin_node_id \in DOMAIN db.nodes
    /\ ClaimStray(reach.origin_node_id, reach.region_id)
    /\ reach.result.error = "NodeValidationError"

\* The step is a compute_route or compute_reachable_nodes call.
ClaimCallStep == calls' = calls + 1

\* The edge list the call of this step worked on, what it asked the
\* repositories, and whether its region and nodes were valid, so that it
\* came to need the edges.
ClaimUsed ==
    IF routing'.called
      THEN [region_id |-> routing'.region_id, edges |-> routing'.edges,
            queries |-> routing'.queries,
            needed |-> /\ routing'.region_id \in DOMAIN db.regions
                       /\ ~ClaimStray(routing'.start_node_id, routing'.region_id)
                       /\ ~ClaimStray(routing'.end_node_id, routing'.region_id)]
    ELSE [region_id |-> reach'.region_id, edges |-> reach'.edges,
          queries |-> reach'.queries,
          needed |-> /\ reach'.region_id \in DOMAIN db.regions
                     /\ ~ClaimStray(reach'.origin_node_id, reach'.region_id)]

(***************************************************************************)
(* C15. On one RoutingService the edge list of a region is asked of the    *)
(* repository at most once, whatever calls are made and also when the list *)
(* is empty: an entry of the edge cache stays as it was first stored, a    *)
(* call for a region whose list is cached asks for no list and works on    *)
(* the cached one, even after the rows behind the repository changed.      *)
(***************************************************************************)
C15_EdgeListLoadedOnce ==
    [][/\ \A r \in DOMAIN _edges_cache :
              r \in DOMAIN _edges_cache' /\ _edges_cache'[r] = _edges_cache[r]
       /\ \A r \in DOMAIN fetched' : fetched'[r] <= 1
       /\ (ClaimCallStep /\ ClaimUsed.needed) =>
              /\ ClaimUsed.edges = _edges_cache'[ClaimUsed.region_id]
              /\ ClaimUsed.region_id \in DOMAIN _edges_cache =>
                    /\ ClaimUsed.edges = _edges_cache[ClaimUsed.region_id]
                    /\ "list_edges_by_region" \notin
                           Range(ClaimAsked(ClaimUsed.queries))]_vars

\* A route request found the empty list an earlier call had cached and was
\* answered from it, although the region has edges by now and the list was
\* asked for only once.
C15_Witness ==
    /\ routing.called
    /\ routing.region_id \in DOMAIN fetched
    /\ fetched[routing.region_id] = 1
    /\ "list_edges_by_region" \notin Range(ClaimAsked(routing.queries))
    /\ routing.edges = <<>>
    /\ routing.result.error = "RouteNotFoundError"
    /\ list_edges_by_region(routing.region_id) # <<>>

\* The modes the claims say a request is served with.
ClaimModes(type, transport_modes) ==
    IF ClaimRequested(transport_modes) = {} THEN ClaimDefault(type)
    ELSE ClaimRequested(transport_modes) \cap ClaimDefault(type)

\* The nodes one gets to from the set `from` along rows, in their direction,
\* that carry one of the modes.
RECURSIVE ClaimRoadsFrom(_, _, _)
ClaimRoadsFrom(rows, from, modes) ==
    LET more == from \cup {rows[i].end_node_id :
                             i \in {j \in DOMAIN rows :
                                      /\ rows[j].start_node_id \in from
                                      /\ Range(rows[j].transport_modes) \cap modes # {}}}
    IN  IF more = from THEN from ELSE ClaimRoadsFrom(rows, more, modes)

\* The last compute_route call named a known region, two of its nodes and
\* modes of which the region allows at least one.
ClaimRouteRequestValid ==
    /\ routing.called
    /\ routing.region_id \in DOMAIN db.regions
    /\ ~ClaimStray(routing.start_node_id, routing.region_id)
    /\ ~ClaimStray(routing.end_node_id, routing.region_id)
    /\ ClaimModes(db.regions[routing.region_id].type,
                  routing.transport_modes) # {}

(***************************************************************************)
(* C16. A compute_route call with a known region, endpoints of that region *)
(* and an admissible mode request raises RouteNotFoundError, and returns   *)
(* no RoutePlan, when the edge list the service holds for the region is    *)
(* empty, and when no chain of edges that carry a resolved mode leads from *)
(* the start to the end.                                                   *)
(***************************************************************************)
C16_NoRouteIsRouteNotFound ==
    (/\ ClaimRouteRequestValid
     /\ ClaimWellFormed(routing.edges)
     /\ \/ routing.edges = <<>>
        \/ routing.end_node_id \notin
               ClaimRoadsFrom(routing.edges, {routing.start_node_id},
                              ClaimModes(db.regions[routing.region_id].type,
                                         routing.transport_modes))) =>
        /\ ~routing.result.ok
        /\ routing.result.error = "RouteNotFoundError"

\* The roads lead from the start to the end, none of them carries the one
\* mode the request is left with, and the solver's failure came out as
\* RouteNotFoundError.
C16_Witness ==
    /\ ClaimRouteRequestValid
    /\ routing.strategy \in WeightStrategy
    /\ routing.end_node_id \in
           ClaimRoadsFrom(routing.edges, {routing.start_node_id}, TransportMode)
    /\ routing.search # NoSearch
    /\ routing.result.error = "RouteNotFoundError"
    /\ routing.result.message = NoPath

(***************************************************************************)
(* C14.  When several requests run concurrently on one service instance,   *)
(* interleaving at the awaits on the repository, every entry of the edge   *)
(* cache and every entry of the node cache is stored at most once, and an  *)
(* entry that is there is neither replaced nor removed by any later step.  *)
(***************************************************************************)
C14_CacheEntriesWrittenOnce ==
    [][/\ \A region_id \in DOMAIN stores'.edges :
            stores'.edges[region_id] <= 1
       /\ \A node_id \in DOMAIN stores'.nodes : stores'.nodes[node_id] <= 1
       /\ \A region_id \in DOMAIN _edges_cache :
            /\ region_id \in DOMAIN _edges_cache'
            /\ _edges_cache'[region_id] = _edges_cache[region_id]
       /\ \A node_id \in DOMAIN _nodes_cache :
            /\ node_id \in DOMAIN _nodes_cache'
            /\ _nodes_cache'[node_id] = _nodes_cache[node_id]]_vars

ClaimPushed == Range(sp.search.pop_log) \cup sp.search.queue

C18_EarlierInsertedPopsFirst ==
    Searched =>
        /\ Cardinality(ClaimPushed) = sp.search.order
        /\ \A a \in ClaimPushed, b \in ClaimPushed :
                a.order = b.order => a = b
        /\ \A k \in DOMAIN sp.search.pop_log :
             LET item == sp.search.pop_log[k]
             IN  /\ \A later \in DOMAIN sp.search.pop_log :
                        (k < later /\ sp.search.pop_log[later].cost = item.cost)
                            => item.order < sp.search.pop_log[later].order
                 /\ \A left \in sp.search.queue :
                        left.cost = item.cost => item.order < left.order

\* A search that popped two entries of equal cost for different nodes; the
\* weights being positive, the second was in the frontier when the first
\* was popped.
C18_Witness ==
    /\ Searched
    /\ \E k \in DOMAIN sp.search.pop_log, later \in DOMAIN sp.search.pop_log :
          /\ k < later
          /\ sp.search.pop_log[k].cost = sp.search.pop_log[later].cost
          /\ sp.search.pop_log[k].node # sp.search.pop_log[later].node

(***************************************************************************)
(* C19.  Scenario B.  On the edges A->B 100, B->C 120, C->D 80, A->D 500,  *)
(* all walk-only at speed 1.4 and congestion 1.0, with B->D (200, speed    *)
(* 4.0, congestion 0.5, bike and electric cart), shortest_path from A to D *)
(* under TIME restricted to bike and electric cart returns [A, B, D] with  *)
(* total_time = 100/1.4 + 200/(4.0 * 0.5).                                 *)
(***************************************************************************)
\* 100/1.4 + 200/(4.0 * 0.5), in units of 1/TimeScale
ClaimScenarioTime == (TimeScale * 1000) \div 14 + TimeScale * (2000 \div 20)

ClaimScenarioCall ==
    /\ sp.called
    /\ sp.start = "A"
    /\ sp.goal = "D"
    /\ sp.strategy = TIME
    /\ sp.allowed_modes = Wheels

ClaimScenarioResult ==
    /\ sp.result.ok
    /\ sp.result.nodes = <<"A", "B", "D">>
    /\ sp.result.total_time = ClaimScenarioTime

C19_ScenarioB ==
    (ClaimScenarioCall /\ edges = WalkOnlyEdges) => ClaimScenarioResult

\* C19 as it holds: the edges are those of the test module, where A->B is
\* open to walkers and bikes and C->D to walkers and electric carts.
C19_ScenarioB_OnTestEdges ==
    (ClaimScenarioCall /\ edges = EDGES) => ClaimScenarioResult

C19_Witness ==
    /\ ClaimScenarioCall
    /\ edges = EDGES
    /\ Len(sp.result.segments) = 2

(***************************************************************************)
(* C20.  In compute_reachable_nodes the scalar the strategy selects drives *)
(* the relaxation as well as the queue: with no distance budget, the time  *)
(* reported for every returned node under TIME is the least travel time    *)
(* from the origin, and the distance reported under DISTANCE the least     *)
(* distance, over the allowed edges walked in either direction.            *)
(***************************************************************************)
\* The rows of the last reachability call that carry a resolved mode.
ClaimOpenRows ==
    {i \in DOMAIN reach.edges :
        Range(reach.edges[i].transport_modes)
            \cap Range(reach.allowed_modes) # {}}

ClaimRowCost(row) ==
    IF reach.strategy = TIME THEN EdgeMinutes(row) ELSE row.distance

\* For each node, the costs of the walks of at most k open rows, each taken
\* in either direction, that lead from the origin to it.
RECURSIVE ClaimReachCosts(_)
ClaimReachCosts(k) ==
    IF k = 0
      THEN [n \in DOMAIN db.nodes |->
                IF n = reach.origin_node_id THEN {0} ELSE {}]
    ELSE LET w == ClaimReachCosts(k - 1)
         IN  [n \in DOMAIN db.nodes |->
                w[n]
                \cup UNION {{c + ClaimRowCost(reach.edges[i]) :
                                c \in w[reach.edges[i].start_node_id]} :
                            i \in {j \in ClaimOpenRows :
                                      reach.edges[j].end_node_id = n}}
                \cup UNION {{c + ClaimRowCost(reach.edges[i]) :
                                c \in w[reach.edges[i].end_node_id]} :
                            i \in {j \in ClaimOpenRows :
                                      reach.edges[j].start_node_id = n}}]

C20_StrategyDrivesRelaxation ==
    (ReachReturned /\ reach.max_distance.is_none) =>
        \A k \in DOMAIN reach.result.visited :
            LET entry == reach.result.visited[k]
                costs == ClaimReachCosts(Len(reach.edges))[entry.node_id]
            IN  /\ costs # {}
                /\ MinOf(costs) = IF reach.strategy = TIME THEN entry.time
                                  ELSE entry.distance

(***************************************************************************)
(* C21.  For every node of a mapping returned by compute_reachable_nodes,  *)
(* under either strategy, the reported path starts at the origin, ends at  *)
(* the node and joins consecutive nodes by allowed edges, and the reported *)
(* distance and time are the sums of those edges' distance and time along  *)
(* the path; the origin has the single-node path at zero cost.             *)
(***************************************************************************)
\* (distance, time) of the allowed rows that join a and b, either way.
ClaimHops(a, b) ==
    {<<reach.edges[i].distance, EdgeMinutes(reach.edges[i])>> :
        i \in {j \in ClaimOpenRows :
                  \/ /\ reach.edges[j].start_node_id = a
                     /\ reach.edges[j].end_node_id = b
                  \/ /\ reach.edges[j].start_node_id = b
                     /\ reach.edges[j].end_node_id = a}}

\* The (distance, time) totals a path can have, one allowed row per hop.
RECURSIVE ClaimPathSums(_)
ClaimPathSums(path) ==
    IF Len(path) <= 1 THEN {<<0, 0>>}
    ELSE {<<s[1] + h[1], s[2] + h[2]>> :
            s \in ClaimPathSums(SubSeq(path, 1, Len(path) - 1)),
            h \in ClaimHops(path[Len(path) - 1], path[Len(path)])}

C21_PathsCarryTheirTotals ==
    ReachReturned =>
        \A k \in DOMAIN reach.result.visited :
            LET entry == reach.result.visited[k]
            IN  /\ entry.path # <<>>
                /\ entry.path[1] = reach.origin_node_id
                /\ entry.path[Len(entry.path)] = entry.node_id
                /\ <<entry.distance, entry.time>> \in ClaimPathSums(entry.path)
                /\ entry.node_id = reach.origin_node_id =>
                        entry.path = <<reach.origin_node_id>>

(***************************************************************************)
(* C22.  In compute_reachable_nodes a node popped with an accumulated      *)
(* distance above max_distance is not expanded, no node is expanded twice, *)
(* and every node discovered through an expanded node is in the returned   *)
(* mapping: the budget bounds expansion, not membership.                   *)
(***************************************************************************)
\* The nodes an allowed row joins to node, either way.
ClaimNeighbours(node) ==
    {reach.edges[i].end_node_id :
        i \in {j \in ClaimOpenRows : reach.edges[j].start_node_id = node}}
    \cup
    {reach.edges[i].start_node_id :
        i \in {j \in ClaimOpenRows : reach.edges[j].end_node_id = node}}

ClaimMapped == {reach.result.visited[k].node_id : k \in DOMAIN reach.result.visited}

C23_PoppedLabelsAreFinal ==
    Searched =>
        LET st == sp.search
            log == st.settled
        IN  /\ \A k, l \in DOMAIN log : log[k].node = log[l].node => k = l
            /\ \A k \in DOMAIN log : log[k] = Labels(st, log[k].node)
            /\ \A k \in DOMAIN st.pop_log :
                   st.pop_log[k].node = sp.goal => k = Len(st.pop_log)
            /\ \A k \in DOMAIN log :
                   log[k].node = sp.goal =>
                       /\ k = Len(log)
                       /\ \E costs \in {PathCosts(edges, sp.start, sp.goal,
                                                   sp.allowed_modes, sp.strategy)} :
                              costs # {} /\ log[k].cost = MinOf(costs)

\* The goal was relabelled before it was popped: three nodes were expanded,
\* the goal last, and a dearer entry for the goal was left in the queue.
C23_Witness ==
    /\ Searched
    /\ sp.goal \in sp.search.visited
    /\ \E q \in sp.search.queue :
           q.node = sp.goal /\ q.cost > sp.search.best_cost[sp.goal]
    /\ Len(sp.search.settled) >= 3

(***************************************************************************)
(* C24.  The reconstruction of shortest_path ends after at most one step   *)
(* per predecessor link; the nodes returned begin with start, end with     *)
(* goal and repeat no node; there is one segment fewer than nodes, and     *)
(* segment k leads from nodes[k] to nodes[k+1] with the distance, the time *)
(* and the selected mode of an input edge between the two.                 *)
(***************************************************************************)
C24_ReconstructedPathIsAChain ==
    Returned =>
        LET nodes == sp.result.nodes
            segments == sp.result.segments
        IN  /\ nodes # <<>>
            /\ nodes[1] = sp.start
            /\ nodes[Len(nodes)] = sp.goal
            /\ Len(nodes) <= Cardinality(DOMAIN sp.search.previous) + 1
            /\ \A k, l \in DOMAIN nodes : nodes[k] = nodes[l] => k = l
            /\ Len(segments) = Len(nodes) - 1
            /\ \A k \in DOMAIN segments :
                   /\ segments[k].source = nodes[k]
                   /\ segments[k].target = nodes[k + 1]
                   /\ \E i \in DOMAIN edges :
                          /\ edges[i].source = nodes[k]
                          /\ edges[i].target = nodes[k + 1]
                          /\ ClaimVisible(edges[i], sp.allowed_modes)
                          /\ segments[k].distance = edges[i].distance
                          /\ segments[k].time = ClaimWeight(edges[i], TIME)
                          /\ segments[k].transport_mode
                                 = ClaimMode(edges[i], sp.allowed_modes)

\* A returned path of three nodes, so that its two segments are told apart
\* by their order, found by a search that relabelled the goal.
C24_Witness ==
    /\ Returned
    /\ Len(sp.result.nodes) = 3
    /\ sp.result.segments[1].distance # sp.result.segments[2].distance
    /\ \E q \in sp.search.queue : q.node = sp.goal

(***************************************************************************)
(* What the claims about the tour heuristics speak of: the cost of a route *)
(* under the strategy of the call, summed over the precomputed pair paths, *)
(* and the route with the stops at positions a..b (counted from 1) in      *)
(* reverse order.                                                          *)
(***************************************************************************)
ClaimLegCost(origin, destination) ==
    StrategyCost(tour.pair_paths[<<origin, destination>>], tour.strategy)

RECURSIVE ClaimTourCost(_)
ClaimTourCost(route) ==
    IF Len(route) < 2 THEN 0
    ELSE ClaimLegCost(route[1], route[2]) + ClaimTourCost(Tail(route))

ClaimReversal(route, a, b) ==
    [k \in DOMAIN route |-> IF a <= k /\ k <= b THEN route[a + b - k] ELSE route[k]]

\* The route that replaced the one of the k-th logged move.
ClaimMoved(k) ==
    IF k = Len(tour.two_opt.moves) THEN tour.two_opt.best_route
    ELSE tour.two_opt.moves[k + 1].route

(***************************************************************************)
(* C25.  _two_opt replaces the route only by a reversal of it that costs   *)
(* less under the strategy, so the cost falls with every replacement, and  *)
(* the returned route costs no more than the nearest-neighbour route.      *)
(***************************************************************************)
C25_TwoOptOnlyImproves ==
    TourReturned =>
        /\ \A k \in DOMAIN tour.two_opt.moves :
               /\ \E a, b \in DOMAIN ClaimMoved(k) :
                      /\ a < b
                      /\ ClaimMoved(k) = ClaimReversal(tour.two_opt.moves[k].route, a, b)
               /\ ClaimTourCost(ClaimMoved(k))
                      < ClaimTourCost(tour.two_opt.moves[k].route)
        /\ tour.targets # <<>> =>
               ClaimTourCost(tour.result.route) <= ClaimTourCost(tour.initial_route)

\* A tour was returned after _two_opt had replaced the nearest-neighbour
\* route.
C25_Witness ==
    /\ TourReturned
    /\ tour.two_opt.moves # <<>>
    /\ tour.result.route # tour.initial_route

(***************************************************************************)
(* C26.  When _two_opt stops before its iteration budget is used up, no    *)
(* reversal of a stretch of two or more interior stops of the returned     *)
(* route costs less than the route; and every replacement made was the     *)
(* first improving reversal in increasing order of where the stretch       *)
(* begins and ends.                                                        *)
(***************************************************************************)
\* The stretches a..b of two or more interior stops of a route.
ClaimStretches(route) ==
    {s \in (2..(Len(route) - 1)) \X (2..(Len(route) - 1)) : s[1] < s[2]}

ClaimImproves(route, s) ==
    ClaimTourCost(ClaimReversal(route, s[1], s[2])) < ClaimTourCost(route)

C26_TwoOptLocalOptimum ==
    (TourReturned /\ tour.targets # <<>>) =>
        /\ tour.two_opt.iteration < tour.max_iterations =>
               \A s \in ClaimStretches(tour.result.route) :
                   ~ClaimImproves(tour.result.route, s)
        /\ \A k \in DOMAIN tour.two_opt.moves :
               LET move == tour.two_opt.moves[k]
                   made == <<move.i + 1, move.j>>
               IN  /\ made \in ClaimStretches(move.route)
                   /\ ClaimMoved(k) = ClaimReversal(move.route, made[1], made[2])
                   /\ ClaimImproves(move.route, made)
                   /\ \A s \in ClaimStretches(move.route) :
                          (s[1] < made[1] \/ (s[1] = made[1] /\ s[2] < made[2]))
                              => ~ClaimImproves(move.route, s)

(***************************************************************************)
(* C27.  _two_opt ends after at most max_iterations passes and at most     *)
(* max_iterations replacements, and at once after a pass that replaced     *)
(* nothing; with max_iterations <= 0 or fewer than two distinct targets it *)
(* returns the nearest-neighbour route as it is.                           *)
(***************************************************************************)
C27_TwoOptIsBounded ==
    (TourReturned /\ tour.targets # <<>>) =>
        LET run == tour.two_opt
        IN  /\ run.iteration <= IF tour.max_iterations > 0 THEN tour.max_iterations
                                ELSE 0
            /\ Len(run.moves) <= run.iteration
            /\ run.iteration - Len(run.moves) <= 1
            /\ run.iteration > Len(run.moves) => ~run.improved
            /\ (run.iteration < tour.max_iterations /\ Len(tour.initial_route) > 3)
                   => run.iteration = Len(run.moves) + 1
            /\ (tour.max_iterations <= 0
                    \/ Cardinality(Range(tour.targets)) < 2)
                   => /\ tour.result.route = tour.initial_route
                      /\ run.moves = <<>>

\* A run that a budget of one pass cut short right after its replacement.
C27_Witness ==
    /\ TourReturned
    /\ tour.max_iterations = 1
    /\ tour.two_opt.iteration = 1
    /\ Len(tour.two_opt.moves) = 1
    /\ tour.two_opt.improved

(***************************************************************************)
(* C28.  In a returned TourResult there is one leg fewer than stops of     *)
(* the route; leg k starts at route[k] and ends at route[k+1]; its path is *)
(* the one precomputed for that ordered pair, a least-cost path that       *)
(* begins at the leg's start and ends at the leg's end; and the legs       *)
(* follow one another from start back to start.                            *)
(***************************************************************************)
\* For each stop, the least cost of a walk of at most k visible edges that
\* leads to it from the stop `from`, as a set that is empty when there is
\* no such walk.
RECURSIVE ClaimStopCosts(_, _)
ClaimStopCosts(from, k) ==
    IF k = 0 THEN [n \in Stops |-> IF n = from THEN {0} ELSE {}]
    ELSE LET w == ClaimStopCosts(from, k - 1)
         IN  [n \in Stops |->
                 LET all == w[n] \cup UNION
                         {{c + ClaimWeight(edges[i], tour.strategy) :
                              c \in w[edges[i].source]} :
                          i \in {j \in DOMAIN edges :
                                   /\ edges[j].target = n
                                   /\ ClaimVisible(edges[j], tour.allowed_modes)}}
                 IN  IF all = {} THEN {} ELSE {MinOf(all)}]

ClaimLegsFollowRoute ==
    LET route == tour.result.route
        legs == tour.result.legs
    IN  /\ Len(legs) = Len(route) - 1
        /\ \A k \in DOMAIN legs :
               /\ legs[k].start = route[k]
               /\ legs[k].end = route[k + 1]
               /\ legs[k].path = tour.pair_paths[<<route[k], route[k + 1]>>]
               /\ legs[k].path.nodes[1] = legs[k].start
               /\ legs[k].path.nodes[Len(legs[k].path.nodes)] = legs[k].end
               /\ {StrategyCost(legs[k].path, tour.strategy)}
                      = ClaimStopCosts(route[k], Len(edges))[route[k + 1]]
               /\ k < Len(legs) => legs[k].end = legs[k + 1].start
        /\ legs # <<>>
        /\ legs[1].start = tour.start
        /\ legs[Len(legs)].end = tour.start

C28_LegsFollowRoute == TourReturned => ClaimLegsFollowRoute

\* Amended: the statement is about tours over a non-empty target list; for
\* no target the result is the route [start, start] without any leg.
C28_LegsFollowRoute_WhenTargets ==
    TourReturned =>
        IF tour.targets # <<>> THEN ClaimLegsFollowRoute
        ELSE /\ tour.result.route = <<tour.start, tour.start>>
             /\ tour.result.legs = <<>>

\* A tour of four legs, one of them over a path of more than one edge.
C28_Witness ==
    /\ TourReturned
    /\ Len(tour.result.legs) = 4
    /\ \E k \in DOMAIN tour.result.legs : Len(tour.result.legs[k].path.nodes) > 2

(***************************************************************************)
(* C29.  For a non-empty target list, duplicates and the start itself      *)
(* among the targets included, and a strategy of WeightStrategy,           *)
(* compute_tour returns a TourResult or raises TourComputationError, and   *)
(* nothing else.                                                           *)
(***************************************************************************)
C29_ResultOrTourComputationError ==
    (tour.called /\ tour.targets # <<>> /\ tour.strategy \in WeightStrategy) =>
        \/ tour.result.ok
        \/ tour.result.error = "TourComputationError"

(***************************************************************************)
(* C30.  In the nearest-neighbour route every stop appended is, among the  *)
(* targets not yet visited, one of least cost from the stop before it      *)
(* under the strategy, and of equally cheap ones the one that comes first  *)
(* in the target list; there is one step per distinct target, and the      *)
(* route then closes on the start.                                         *)
(***************************************************************************)
\* Where a target first occurs in the list given.
ClaimFirstAt(target) ==
    CHOOSE k \in DOMAIN tour.targets :
        tour.targets[k] = target /\ \A m \in 1..(k - 1) : tour.targets[m] # target

\* The targets not yet on the route before position k.
ClaimUnvisited(route, k) ==
    Range(tour.targets) \ {route[m] : m \in 2..(k - 1)}

\* compute_tour came as far as calling _nearest_neighbour_route.
ClaimConstructionRan ==
    /\ tour.called
    /\ tour.targets # <<>>
    /\ tour.strategy \in WeightStrategy
    /\ tour.result.error # "TourComputationError"

C30_NearestNeighbourConstruction ==
    ClaimConstructionRan =>
        LET route == tour.initial_route
        IN  /\ Len(route) = Cardinality(Range(tour.targets)) + 2
            /\ route[1] = tour.start
            /\ route[Len(route)] = tour.start
            /\ \A k \in 2..(Len(route) - 1) :
                   /\ route[k] \in ClaimUnvisited(route, k)
                   /\ \A t \in ClaimUnvisited(route, k) :
                          \/ ClaimLegCost(route[k - 1], route[k])
                                 < ClaimLegCost(route[k - 1], t)
                          \/ /\ ClaimLegCost(route[k - 1], route[k])
                                    = ClaimLegCost(route[k - 1], t)
                             /\ ClaimFirstAt(route[k]) <= ClaimFirstAt(t)

=============================================================================
